---- MODULE Spec2Model ----
(***************************************************************************)
(* Memory-statistics collectors of TracerComparison.                       *)
(*                                                                         *)
(*   msc      the MemStatsCollector object of static_memstats_collector.py *)
(*   static   what MemStatsCollectorStatic adds to it: module_info_list    *)
(*            and the attributes of the module tree it rewires             *)
(*   MemInfo  the process-wide ledger class of verify_tracer_v3.py         *)
(*   hook     the MyParamHook object owned by MyParamWrapper               *)
(*   frame    init_mem_stats while it runs: its position in the graph and  *)
(*            its local variables (the traced graph, total_mem, peak_mem,  *)
(*            fwd_out_released, grad_in_computed)                          *)
(*   drv      the position of the training driver inside one iteration of  *)
(*            MyParamWrapper (forward(), the hook callbacks, backward())   *)
(*            and the operands and readings of the last hook call          *)
(*   ret      the outcome of the last call: its name, the exception it     *)
(*            raised ("none" when it returned) and its return value        *)
(*   reads    how many times next_period_non_model_data_usage has returned *)
(*            a value since the collection last finished (observation only)*)
(***************************************************************************)
EXTENDS Integers, Sequences, FiniteSets, TLC

VARIABLES msc, static, frame, reads, MemInfo, hook, drv, pw, ret

vars == <<msc, static, frame, reads, MemInfo, hook, drv, pw, ret>>

(***************************************************************************)
(* Bounds of the model.                                                    *)
(***************************************************************************)
\* longest run of samples taken by one MemStatsCollector (len(_sampling_time))
MaxSamples == 2
\* longest observed run of next_period_non_model_data_usage calls
MaxReads == 2
\* most pre_op/post_op pairs in one iteration of the hook-driven collector
MaxPairs == 3
\* most init_mem_stats runs of one static collector
MaxInitRuns == 1

(***************************************************************************)
(* Program constants.                                                      *)
(***************************************************************************)
\* 64*1024*4.0, subtracted from the first cuda model-data sample
CudaContextBytes == 64 * 1024 * 4
\* model-data samples up to this list length repeat the previous sample
WarmupLen == 7
\* bytes per element of module.weight
BytesPerElem == 4

(***************************************************************************)
(* Values the environment can produce.                                     *)
(***************************************************************************)
\* torch.cuda.memory_allocated() at the first model-data sample
AllocatedVals == {CudaContextBytes + 8}
\* SyncCudaMemoryMonitor.finish(): the peak of the window that is closed
PeakVals == {20, 30}
\* StatefulTensor.GST_MGR.total_mem['cpu']
CpuModelVals == {1}
\* colo_device_memory_used(torch.device('cpu'))
CpuUsedVals == {5}
\* module.weight.data.numel() of the modules passed to sample_model_data
WeightNumels == {2}
\* device tokens passed by callers
DeviceTypes == {"cuda", "cpu", "meta"}

Last(s) == s[Len(s)]
SetLast(s, v) == [s EXCEPT ![Len(s)] = v]
Max2(a, b) == IF a >= b THEN a ELSE b
Max3(a, b, c) == Max2(a, Max2(b, c))

(***************************************************************************)
(* MemStatsCollector                                                       *)
(***************************************************************************)
\* SyncCudaMemoryMonitor: start() opens a measurement window (peak reset),
\* finish() closes it and returns the peak seen since start()
MonitorStart(mon) == [mon EXCEPT !.open = TRUE]
MonitorFinish(mon) == [mon EXCEPT !.open = FALSE]

MemStatsCollector__init__ ==
    [ _mem_monitor             |-> [open |-> FALSE],
      _model_data_cuda_list    |-> << >>,
      _overall_cuda_list       |-> << >>,
      _model_data_cpu_list     |-> << >>,
      _overall_cpu_list        |-> << >>,
      _non_model_data_cuda_list |-> << >>,
      _non_model_data_cpu_list |-> << >>,
      _sampling_time           |-> << >>,
      _start_flag              |-> FALSE,
      _step_idx                |-> 0,
      _step_total              |-> 0 ]

\* the result of a call: the object after it, the exception raised, the value
Returned(self, v) == [self |-> self, err |-> "none", val |-> v]
Raised(self, e) == [self |-> self, err |-> e, val |-> 0]

overall_mem_stats(self, device_type) ==
    IF device_type = "cuda" THEN Returned(self, self._overall_cuda_list)
    ELSE IF device_type = "cpu" THEN Returned(self, self._overall_cpu_list)
    ELSE Raised(self, "TypeError")

model_data_list(self, device_type) ==
    IF device_type = "cuda" THEN Returned(self, self._model_data_cuda_list)
    ELSE IF device_type = "cpu" THEN Returned(self, self._model_data_cpu_list)
    ELSE Raised(self, "TypeError")

\* non_model_data_list answering every token that is not 'cuda' with the cpu list
non_model_data_list_DefaultsToCpu(self, device_type) ==
    IF device_type = "cuda" THEN Returned(self, self._non_model_data_cuda_list)
    ELSE Returned(self, self._non_model_data_cpu_list)

non_model_data_list(self, device_type) ==
    IF device_type = "cuda" THEN Returned(self, self._non_model_data_cuda_list)
    ELSE IF device_type = "cpu" THEN Returned(self, self._non_model_data_cpu_list)
    ELSE Raised(self, "TypeError")

\* next_period_non_model_data_usage without its first assertion
next_period_NoStartAssert(self, device_type) ==
    IF ~(self._step_total > 0) THEN Raised(self, "AssertionError")
    ELSE LET l == non_model_data_list(self, device_type) IN
         IF l.err # "none" THEN Raised(self, l.err)
         ELSE IF self._step_idx + 1 > Len(l.val) THEN Raised(self, "IndexError")
         ELSE Returned([self EXCEPT !._step_idx = (self._step_idx + 1) % self._step_total],
                       l.val[self._step_idx + 1])

next_period_non_model_data_usage(self, device_type) ==
    IF self._start_flag THEN Raised(self, "AssertionError")
    ELSE IF ~(self._step_total > 0) THEN Raised(self, "AssertionError")
    ELSE LET l == non_model_data_list(self, device_type) IN
         IF l.err # "none" THEN Raised(self, l.err)
         ELSE IF self._step_idx + 1 > Len(l.val) THEN Raised(self, "IndexError")
         ELSE Returned([self EXCEPT !._step_idx = (self._step_idx + 1) % self._step_total],
                       l.val[self._step_idx + 1])

start_collection(self) ==
    Returned([self EXCEPT !._start_flag = TRUE,
                          !._mem_monitor = MonitorStart(@)], 0)

\* sample_model_data without the test of _start_flag
sample_model_data_NoFlagTest(self, allocated, cpu_mem, numel) ==
    Returned([self EXCEPT
        !._model_data_cuda_list =
            IF Len(@) = 0 THEN Append(@, allocated - CudaContextBytes)
            ELSE IF Len(@) <= WarmupLen THEN Append(@, Last(@))
            ELSE Append(@, Last(@) + numel * BytesPerElem),
        !._model_data_cpu_list = Append(@, cpu_mem)], 0)

sample_model_data(self, allocated, cpu_mem, numel) ==
    IF self._start_flag
    THEN Returned([self EXCEPT
        !._model_data_cuda_list =
            IF Len(@) = 0 THEN Append(@, allocated - CudaContextBytes)
            ELSE IF Len(@) <= WarmupLen THEN Append(@, Last(@))
            ELSE Append(@, Last(@) + numel * BytesPerElem),
        !._model_data_cpu_list = Append(@, cpu_mem)], 0)
    ELSE Returned(self, 0)

\* sample_overall_data without its length assertion
sample_overall_data_NoAssert(self, peak, cpu_used) ==
    IF ~self._start_flag THEN Returned(self, 0)
    ELSE IF Len(self._model_data_cuda_list) = 0 THEN Returned(self, 0)
    ELSE LET s1 == [self EXCEPT !._mem_monitor = MonitorFinish(@),
                                !._overall_cuda_list = Append(@, peak),
                                !._overall_cpu_list = Append(@, cpu_used)]
         IN  Returned([s1 EXCEPT
                    !._non_model_data_cuda_list =
                        Append(@, Last(s1._overall_cuda_list) - Last(s1._model_data_cuda_list)),
                    !._non_model_data_cpu_list =
                        Append(@, Last(s1._overall_cpu_list) - Last(s1._model_data_cpu_list)),
                    !._sampling_time = Append(@, Len(@) + 1),
                    !._mem_monitor = MonitorStart(s1._mem_monitor)], 0)

\* peak is what _mem_monitor.finish() returns, cpu_used what
\* colo_device_memory_used returns
sample_overall_data(self, peak, cpu_used) ==
    IF ~self._start_flag THEN Returned(self, 0)
    ELSE IF Len(self._model_data_cuda_list) = 0 THEN Returned(self, 0)
    ELSE LET s1 == [self EXCEPT !._mem_monitor = MonitorFinish(@),
                                !._overall_cuda_list = Append(@, peak),
                                !._overall_cpu_list = Append(@, cpu_used)]
         IN  IF Len(s1._model_data_cuda_list) # Len(s1._overall_cuda_list)
             THEN Raised(s1, "AssertionError")
             ELSE Returned([s1 EXCEPT
                    !._non_model_data_cuda_list =
                        Append(@, Last(s1._overall_cuda_list) - Last(s1._model_data_cuda_list)),
                    !._non_model_data_cpu_list =
                        Append(@, Last(s1._overall_cpu_list) - Last(s1._model_data_cpu_list)),
                    !._sampling_time = Append(@, Len(@) + 1),
                    !._mem_monitor = MonitorStart(s1._mem_monitor)], 0)

finish_collection(self, peak, cpu_used) ==
    LET r == sample_overall_data(self, peak, cpu_used) IN
    IF r.err # "none" THEN r
    ELSE Returned([r.self EXCEPT !._step_total = Len(r.self._sampling_time),
                                 !._start_flag = FALSE,
                                 !._mem_monitor = MonitorFinish(@)], 0)

clear(self) ==
    Returned([self EXCEPT !._model_data_cuda_list = << >>,
                          !._overall_cuda_list = << >>,
                          !._model_data_cpu_list = << >>,
                          !._overall_cpu_list = << >>,
                          !._non_model_data_cpu_list = << >>,
                          !._non_model_data_cuda_list = << >>,
                          !._start_flag = FALSE,
                          !._step_idx = 0,
                          !._step_total = 0], 0)

(***************************************************************************)
(* MemStatsCollectorStatic: the module registry and the graph simulation.  *)
(* Strings that the code slices or searches are sequences of characters.   *)
(***************************************************************************)
\* str.replace(old, new) for one-character old and new
StrReplace(s, old, new) == [i \in 1..Len(s) |-> IF s[i] = old THEN new ELSE s[i]]
\* str.endswith(suffix)
EndsWith(s, suffix) ==
    /\ Len(s) >= Len(suffix)
    /\ SubSeq(s, Len(s) - Len(suffix) + 1, Len(s)) = suffix
\* s[:-2]
DropLastTwo(s) == SubSeq(s, 1, Len(s) - 2)
\* s[1:]
DropFirst(s) == SubSeq(s, 2, Len(s))
\* str.__contains__(sub)
StrContains(s, sub) ==
    \E i \in 1..(Len(s) - Len(sub) + 1) : SubSeq(s, i, i + Len(sub) - 1) = sub
\* x in list
InList(x, l) == \E i \in 1..Len(l) : l[i] = x

\* The wrapped module tree: named_children() and the number of direct
\* parameters of every module.  "net" is self.module.
Modules == {"net", "fc1", "act", "fc2"}
NamedChildren(m) ==
    IF m = "net"
    THEN << [name |-> <<"f", "c", "1">>, module |-> "fc1"],
            [name |-> <<"a", "c", "t">>, module |-> "act"],
            [name |-> <<"f", "c", "2">>, module |-> "fc2"] >>
    ELSE << >>
DirectParameters(m) == IF m \in {"fc1", "fc2"} THEN 2 ELSE 0

ModuleInfos(module, module_name, module_full_name, parent_module) ==
    [ module |-> module, module_name |-> module_name,
      module_full_name |-> module_full_name, parent_module |-> parent_module ]

\* register_opnodes_recursively(module, name, full_name, parent_module):
\* the module_info_list after the call, given the list before it
RECURSIVE register_opnodes_recursively(_, _, _, _, _)
RECURSIVE register_children(_, _, _, _, _)
register_children(module_info_list, module, full_name, children, i) ==
    IF i > Len(children) THEN module_info_list
    ELSE register_children(
            register_opnodes_recursively(module_info_list, children[i].module,
                children[i].name, full_name \o <<"_">> \o children[i].name, module),
            module, full_name, children, i + 1)
register_opnodes_recursively(module_info_list, module, name, full_name, parent_module) ==
    LET l == register_children(module_info_list, module, full_name, NamedChildren(module), 1) IN
    IF DirectParameters(module) = 0 THEN l
    ELSE Append(l, ModuleInfos(module, name, DropFirst(full_name), parent_module))

\* The attributes of the module tree: attr[<<parent, name>>] is the
\* submodule the parent holds under that name, or the nn.Sequential that
\* refactor_module puts in its place.
TreeAttrs__init__ ==
    [k \in {<<"net", NamedChildren("net")[i].name>> : i \in 1..Len(NamedChildren("net"))} |->
        [wrapped |-> FALSE,
         module |-> (CHOOSE c \in {NamedChildren("net")[i] : i \in 1..Len(NamedChildren("net"))} :
                        c.name = k[2]).module]]

RECURSIVE set_attrs(_, _, _, _)
set_attrs(attr, module_info_list, wrapped, i) ==
    IF i > Len(module_info_list) THEN [attr |-> attr, err |-> "none"]
    ELSE LET modInfo == module_info_list[i] IN
         IF modInfo.parent_module = "None" THEN [attr |-> attr, err |-> "AttributeError"]
         ELSE set_attrs(
                [attr EXCEPT ![<<modInfo.parent_module, modInfo.module_name>>] =
                    [wrapped |-> wrapped, module |-> modInfo.module]],
                module_info_list, wrapped, i + 1)

\* nn.Sequential(nn.Identity(), modInfo.module) replaces every registered module
refactor_module(attr, module_info_list) == set_attrs(attr, module_info_list, TRUE, 1)
\* the registered module is put back
recover_module(attr, module_info_list) == set_attrs(attr, module_info_list, FALSE, 1)

\* A node of the traced graph: name, op, target, args (positions of the
\* argument nodes in the graph, in order), calculate_fwd_tmp, calculate_fwd_out,
\* meta["bwd_mem_tmp"], meta["bwd_mem_out"] and the byte sizes of the tensors
\* of meta["fwd_out"].
GraphNode(name, op, target, args, fwd_tmp, fwd_out, bwd_mem_tmp, bwd_mem_out, fwd_out_tensors) ==
    [ name |-> name, op |-> op, target |-> target, args |-> args,
      fwd_tmp |-> fwd_tmp, fwd_out |-> fwd_out,
      bwd_mem_tmp |-> bwd_mem_tmp, bwd_mem_out |-> bwd_mem_out,
      fwd_out_tensors |-> fwd_out_tensors ]

\* a boundary test that looks at the "_0" suffix only
IsBoundary_AnyMarker(node, module_name_list) ==
    /\ node.op = "call_module"
    /\ EndsWith(StrReplace(node.target, ".", "_"), <<"_", "0">>)

\* node.op == "call_module" and the target names the identity marker of a
\* registered module
IsBoundary(node, module_name_list) ==
    /\ node.op = "call_module"
    /\ LET module_name == StrReplace(node.target, ".", "_") IN
       /\ EndsWith(module_name, <<"_", "0">>)
       /\ InList(DropLastTwo(module_name), module_name_list)

RECURSIVE SumSeq(_)
SumSeq(s) == IF Len(s) = 0 THEN 0 ELSE s[1] + SumSeq(Tail(s))

\* a pass of the forward loop that samples the total before the node's bytes
\* are added
ForwardNode_SamplesBefore(sim, i, module_name_list) ==
    LET node == sim.nodes[i]
        total_mem == sim.total_mem + node.fwd_tmp + node.fwd_out
        released == IF node.fwd_out > 0
                    THEN [sim.fwd_out_released EXCEPT ![i] = "False"]
                    ELSE sim.fwd_out_released
    IN  IF IsBoundary(node, module_name_list)
        THEN [sim EXCEPT !.total_mem = total_mem,
                         !.fwd_out_released = released,
                         !.samples = Append(@, sim.total_mem),
                         !.nodes[i].bwd_mem_tmp = 0,
                         !.nodes[i].bwd_mem_out = 0]
        ELSE [sim EXCEPT !.total_mem = total_mem, !.fwd_out_released = released]

\* a pass of the forward loop that records no sample at a boundary
ForwardNode_NoSample(sim, i, module_name_list) ==
    LET node == sim.nodes[i]
        total_mem == sim.total_mem + node.fwd_tmp + node.fwd_out
        released == IF node.fwd_out > 0
                    THEN [sim.fwd_out_released EXCEPT ![i] = "False"]
                    ELSE sim.fwd_out_released
    IN  IF IsBoundary(node, module_name_list)
        THEN [sim EXCEPT !.total_mem = total_mem,
                         !.fwd_out_released = released,
                         !.nodes[i].bwd_mem_tmp = 0,
                         !.nodes[i].bwd_mem_out = 0]
        ELSE [sim EXCEPT !.total_mem = total_mem, !.fwd_out_released = released]

\* one pass of the forward loop; sim is [nodes, total_mem, peak_mem,
\* fwd_out_released, grad_in_computed, samples]
ForwardNode(sim, i, module_name_list) ==
    LET node == sim.nodes[i]
        total_mem == sim.total_mem + node.fwd_tmp + node.fwd_out
        released == IF node.fwd_out > 0
                    THEN [sim.fwd_out_released EXCEPT ![i] = "False"]
                    ELSE sim.fwd_out_released
    IN  IF IsBoundary(node, module_name_list)
        THEN [sim EXCEPT !.total_mem = total_mem,
                         !.fwd_out_released = released,
                         !.samples = Append(@, total_mem),
                         !.nodes[i].bwd_mem_tmp = 0,
                         !.nodes[i].bwd_mem_out = 0]
        ELSE [sim EXCEPT !.total_mem = total_mem, !.fwd_out_released = released]

RECURSIVE ForwardLoop(_, _, _)
ForwardLoop(sim, i, module_name_list) ==
    IF i > Len(sim.nodes) THEN sim
    ELSE ForwardLoop(ForwardNode(sim, i, module_name_list), i + 1, module_name_list)

\* a loop over node.args that releases a producer at every reference to it
RECURSIVE ReleaseInputs_IgnoresFlag(_, _, _)
ReleaseInputs_IgnoresFlag(sim, args, k) ==
    IF k > Len(args) THEN sim
    ELSE LET in_node == args[k]
             fwd_out == sim.nodes[in_node].fwd_out
             s1 == IF fwd_out > 0
                   THEN [sim EXCEPT !.total_mem = @ - fwd_out,
                                    !.fwd_out_released[in_node] = "True"]
                   ELSE sim
         IN  ReleaseInputs_IgnoresFlag(s1, args, k + 1)

\* the loop over node.args of the backward pass, from args[k] on
RECURSIVE ReleaseInputs(_, _, _)
ReleaseInputs(sim, args, k) ==
    IF k > Len(args) THEN sim
    ELSE LET in_node == args[k]
             fwd_out == sim.nodes[in_node].fwd_out
             s1 == IF fwd_out > 0 /\ sim.fwd_out_released[in_node] = "False"
                   THEN [sim EXCEPT !.total_mem = @ - fwd_out,
                                    !.fwd_out_released[in_node] = "True"]
                   ELSE sim
             s2 == IF s1.grad_in_computed[in_node]
                   THEN [s1 EXCEPT !.total_mem = @ - fwd_out,
                                   !.grad_in_computed[in_node] = TRUE]
                   ELSE s1
         IN  ReleaseInputs(s2, args, k + 1)

RECURSIVE SumFwdOut(_, _, _)
SumFwdOut(nodes, args, k) ==
    IF k > Len(args) THEN 0 ELSE nodes[args[k]].fwd_out + SumFwdOut(nodes, args, k + 1)

\* a pass of the reversed loop that re-adds the inputs of the output node
\* before the node is processed
BackwardNode_ReaddsFirst(sim, i, module_name_list) ==
    LET node == sim.nodes[i] IN
    IF StrContains(node.name, <<"w", "h", "e", "r", "e">>) THEN sim
    ELSE IF StrContains(node.name, <<"t", "r", "u", "e", "d", "i", "v">>) THEN sim
    ELSE LET readded == IF node.name = <<"o", "u", "t", "p", "u", "t">>
                        THEN SumFwdOut(sim.nodes, node.args, 1) ELSE 0
             before == sim.total_mem + readded + node.bwd_mem_tmp + node.bwd_mem_out
             s1 == [sim EXCEPT !.total_mem = before - node.bwd_mem_tmp - node.fwd_tmp
                                              - SumSeq(node.fwd_out_tensors),
                               !.peak_mem = Max2(sim.peak_mem, before)]
             s3 == ReleaseInputs(s1, node.args, 1)
         IN  IF IsBoundary(node, module_name_list)
             THEN [s3 EXCEPT !.samples = Append(@, s3.peak_mem),
                             !.total_mem = @ + SumSeq(node.fwd_out_tensors),
                             !.peak_mem = s3.total_mem + SumSeq(node.fwd_out_tensors)]
             ELSE s3

\* a pass of the reversed loop that keeps the peak across a boundary
BackwardNode_NoPeakReset(sim, i, module_name_list) ==
    LET node == sim.nodes[i] IN
    IF StrContains(node.name, <<"w", "h", "e", "r", "e">>) THEN sim
    ELSE IF StrContains(node.name, <<"t", "r", "u", "e", "d", "i", "v">>) THEN sim
    ELSE LET before == sim.total_mem + node.bwd_mem_tmp + node.bwd_mem_out
             s1 == [sim EXCEPT !.total_mem = before - node.bwd_mem_tmp - node.fwd_tmp
                                              - SumSeq(node.fwd_out_tensors),
                               !.peak_mem = Max2(sim.peak_mem, before)]
             s2 == ReleaseInputs(s1, node.args, 1)
             s3 == IF node.name = <<"o", "u", "t", "p", "u", "t">>
                   THEN [s2 EXCEPT !.total_mem = @ + SumFwdOut(s2.nodes, node.args, 1)]
                   ELSE s2
         IN  IF IsBoundary(node, module_name_list)
             THEN [s3 EXCEPT !.samples = Append(@, s3.peak_mem),
                             !.total_mem = @ + SumSeq(node.fwd_out_tensors)]
             ELSE s3

\* a pass of the reversed loop whose skip list holds "where" only
BackwardNode_SkipsOnlyWhere(sim, i, module_name_list) ==
    LET node == sim.nodes[i] IN
    IF StrContains(node.name, <<"w", "h", "e", "r", "e">>) THEN sim
    ELSE LET before == sim.total_mem + node.bwd_mem_tmp + node.bwd_mem_out
             s1 == [sim EXCEPT !.total_mem = before - node.bwd_mem_tmp - node.fwd_tmp
                                              - SumSeq(node.fwd_out_tensors),
                               !.peak_mem = Max2(sim.peak_mem, before)]
             s2 == ReleaseInputs(s1, node.args, 1)
             s3 == IF node.name = <<"o", "u", "t", "p", "u", "t">>
                   THEN [s2 EXCEPT !.total_mem = @ + SumFwdOut(s2.nodes, node.args, 1)]
                   ELSE s2
         IN  IF IsBoundary(node, module_name_list)
             THEN [s3 EXCEPT !.samples = Append(@, s3.peak_mem),
                             !.total_mem = @ + SumSeq(node.fwd_out_tensors),
                             !.peak_mem = s3.total_mem + SumSeq(node.fwd_out_tensors)]
             ELSE s3

\* one pass of the reversed loop
BackwardNode(sim, i, module_name_list) ==
    LET node == sim.nodes[i] IN
    IF StrContains(node.name, <<"w", "h", "e", "r", "e">>) THEN sim
    ELSE IF StrContains(node.name, <<"t", "r", "u", "e", "d", "i", "v">>) THEN sim
    ELSE LET before == sim.total_mem + node.bwd_mem_tmp + node.bwd_mem_out
             s1 == [sim EXCEPT !.total_mem = before - node.bwd_mem_tmp - node.fwd_tmp
                                              - SumSeq(node.fwd_out_tensors),
                               !.peak_mem = Max2(sim.peak_mem, before)]
             s2 == ReleaseInputs(s1, node.args, 1)
             s3 == IF node.name = <<"o", "u", "t", "p", "u", "t">>
                   THEN [s2 EXCEPT !.total_mem = @ + SumFwdOut(s2.nodes, node.args, 1)]
                   ELSE s2
         IN  IF IsBoundary(node, module_name_list)
             THEN [s3 EXCEPT !.samples = Append(@, s3.peak_mem),
                             !.total_mem = @ + SumSeq(node.fwd_out_tensors),
                             !.peak_mem = s3.total_mem + SumSeq(node.fwd_out_tensors)]
             ELSE s3

RECURSIVE BackwardLoop(_, _, _)
BackwardLoop(sim, i, module_name_list) ==
    IF i < 1 THEN sim
    ELSE BackwardLoop(BackwardNode(sim, i, module_name_list), i - 1, module_name_list)

ModuleNameList(module_info_list) ==
    [i \in 1..Len(module_info_list) |-> module_info_list[i].module_full_name]

\* init_mem_stats on collector self with registry state stat = [module_info_list,
\* attr]; graph is what ColoTracer and MetaInfoProp produce for the refactored module
init_mem_stats(self, stat, graph) ==
    LET registered == register_opnodes_recursively(stat.module_info_list, "net",
                                                   << >>, << >>, "None")
        refactored == refactor_module(stat.attr, registered)
    IN  IF refactored.err # "none"
        THEN [self |-> self, err |-> refactored.err, val |-> 0,
              stat |-> [module_info_list |-> registered, attr |-> refactored.attr]]
        ELSE
        LET module_name_list == ModuleNameList(registered)
            sim0 == [ nodes |-> graph, total_mem |-> 0, peak_mem |-> 0,
                      fwd_out_released |-> [i \in 1..Len(graph) |-> "absent"],
                      grad_in_computed |-> [i \in 1..Len(graph) |-> FALSE],
                      samples |-> self._non_model_data_cuda_list ]
            fwd == ForwardLoop(sim0, 1, module_name_list)
            simA == [fwd EXCEPT !.samples = Tail(Append(@, fwd.total_mem)),
                                !.peak_mem = fwd.total_mem]
            simB == BackwardLoop(simA, Len(graph), module_name_list)
            recovered == recover_module(refactored.attr, registered)
        IN  [self |-> [self EXCEPT !._non_model_data_cuda_list = simB.samples,
                                   !._step_total = Len(simB.samples)],
             err |-> recovered.err, val |-> 0,
             stat |-> [module_info_list |-> registered, attr |-> recovered.attr]]

\* the registry of one walk over the tree
Registry == register_opnodes_recursively(<< >>, "net", << >>, << >>, "None")

MemStatsCollectorStatic__init__ ==
    [ module_info_list |-> << >>, attr |-> TreeAttrs__init__ ]

\* The graphs the tracer hands over for the refactored tree: x -> fc1.0 ->
\* fc1.1 -> act -> fc2.0 -> fc2.1 -> output, with activations of a bytes.
ChainGraph(a) ==
    << GraphNode(<<"x">>, "placeholder", <<"x">>, << >>, 0, a, 0, 0, <<a>>),
       GraphNode(<<"f", "c", "1", "_", "0">>, "call_module", <<"f", "c", "1", ".", "0">>,
                 <<1>>, 0, 0, 0, a, <<a>>),
       GraphNode(<<"f", "c", "1", "_", "1">>, "call_module", <<"f", "c", "1", ".", "1">>,
                 <<2>>, 1, a, 1, a, <<a>>),
       GraphNode(<<"a", "c", "t">>, "call_module", <<"a", "c", "t">>,
                 <<3>>, 0, a, 0, a, <<a>>),
       GraphNode(<<"f", "c", "2", "_", "0">>, "call_module", <<"f", "c", "2", ".", "0">>,
                 <<4>>, 0, 0, 0, a, <<a>>),
       GraphNode(<<"f", "c", "2", "_", "1">>, "call_module", <<"f", "c", "2", ".", "1">>,
                 <<5>>, 1, a, 2, a, <<a>>),
       GraphNode(<<"o", "u", "t", "p", "u", "t">>, "output", <<"o", "u", "t", "p", "u", "t">>,
                 <<6>>, 0, 0, 0, 0, << >>) >>
ActivationBytes == {4}
Graphs == {ChainGraph(a) : a \in ActivationBytes}

(***************************************************************************)
(* The hook-driven runtime collector: MemInfo, MyParamHook, MyParamWrapper *)
(***************************************************************************)
\* the parameters of the wrapped module
Params == {"w1", "w2", "frozen"}
\* p.data.numel() * p.data.element_size()
ParamBytes(p) == CASE p = "w1" -> 4 [] p = "w2" -> 8 [] OTHER -> 2
\* p.requires_grad
RequiresGrad(p) == p # "frozen"
\* the parameter lists the dispatcher hands to one operation's hooks
ParamLists ==
    {<<p>> : p \in Params} \cup {<<"w1", "w2">>, <<"w2", "w2">>, <<"frozen", "w1">>}
\* model_mem given to MyParamWrapper: torch.cuda.memory_allocated() after the build
ModelMem == 10
\* mem_monitor.finish() of the hook's monitor
HookPeakVals == {40, 60}
\* torch.cuda.memory_allocated() read while reconciling
HookAllocatedVals == {50}
\* most iterations (forward() then backward()) of one wrapper
MaxIters == 2
MaxNesting == 2


\* class MemInfo as the interpreter creates it
MemInfo__class__ ==
    [ model_data_list     |-> << >>,
      non_model_data_list |-> << >>,
      unreleased_grad_flag |-> << >>,
      temp_grad_volume    |-> 0 ]

MyParamHook__init__(model_data_mem) ==
    [ model_data_mem  |-> model_data_mem,
      _training_phase |-> "FORWARD",
      mem_monitor     |-> [open |-> FALSE] ]

\* the pair the hook operations act on: st.M is MemInfo, st.h the hook object
HookReturned(st) == [M |-> st.M, h |-> st.h, err |-> "none"]
HookRaised(st, e) == [M |-> st.M, h |-> st.h, err |-> e]

\* the loop body of sample_model_data (BACKWARD branch) for params[i..];
\* acc is [st, data_volume, err]
RECURSIVE sample_backward_loop(_, _, _)
sample_backward_loop(acc, params, i) ==
    IF i > Len(params) \/ acc.err # "none" THEN acc
    ELSE LET p == params[i]
             cur_param_data_volume == ParamBytes(p)
             M == acc.st.M
             h == acc.st.h
         IN  IF ~RequiresGrad(p) THEN sample_backward_loop(acc, params, i + 1)
             ELSE IF p \notin DOMAIN M.unreleased_grad_flag
             THEN [acc EXCEPT !.err = "KeyError"]
             ELSE IF ~M.unreleased_grad_flag[p]
             THEN sample_backward_loop(
                    [acc EXCEPT !.data_volume = @ + cur_param_data_volume,
                                !.st.h.model_data_mem = @ + cur_param_data_volume,
                                !.st.M.unreleased_grad_flag[p] = TRUE],
                    params, i + 1)
             ELSE sample_backward_loop(
                    [acc EXCEPT !.data_volume = @ + cur_param_data_volume,
                                !.st.M.temp_grad_volume = @ + cur_param_data_volume],
                    params, i + 1)

hook_sample_model_data(st, params) ==
    IF st.h._training_phase = "FORWARD"
    THEN HookReturned([st EXCEPT !.M.model_data_list = Append(@, st.h.model_data_mem)])
    ELSE IF st.h._training_phase = "BACKWARD"
    THEN LET r == sample_backward_loop(
                    [st |-> st, data_volume |-> st.h.model_data_mem, err |-> "none"],
                    params, 1)
         IN  IF r.err # "none" THEN HookRaised(r.st, r.err)
             ELSE HookReturned([r.st EXCEPT !.M.model_data_list = Append(@, r.data_volume)])
    ELSE HookReturned(st)

\* pre_op whose reconciliation appends instead of overwriting the last sample
pre_op_AppendsReconciled(st, params, cuda_volume, allocated) ==
    LET s0 == [st EXCEPT !.h.mem_monitor = MonitorFinish(@)]
        s1 == IF Len(s0.M.model_data_list) # 0
              THEN IF s0.h._training_phase = "BACKWARD" /\ s0.M.temp_grad_volume > 0
                   THEN HookReturned([s0 EXCEPT
                               !.M.non_model_data_list = Append(@,
                                   Max2(cuda_volume - s0.M.temp_grad_volume
                                            - Last(s0.M.model_data_list),
                                        allocated - s0.h.model_data_mem)),
                               !.M.temp_grad_volume = 0])
                   ELSE HookReturned([s0 EXCEPT !.M.non_model_data_list =
                               Append(@, cuda_volume - Last(s0.M.model_data_list))])
              ELSE HookReturned(s0)
        s2 == hook_sample_model_data([M |-> s1.M, h |-> s1.h], params)
    IN  IF s2.err # "none" THEN s2
        ELSE HookReturned([M |-> s2.M,
                           h |-> [s2.h EXCEPT !.mem_monitor = MonitorStart(@)]])

\* pre_op whose reconciliation forgets the sample it replaces
pre_op_DropsPreviousLast(st, params, cuda_volume, allocated) ==
    LET s0 == [st EXCEPT !.h.mem_monitor = MonitorFinish(@)]
        s1 == IF Len(s0.M.model_data_list) # 0
              THEN IF s0.h._training_phase = "BACKWARD" /\ s0.M.temp_grad_volume > 0
                   THEN IF Len(s0.M.non_model_data_list) = 0
                        THEN HookRaised(s0, "IndexError")
                        ELSE HookReturned([s0 EXCEPT
                               !.M.non_model_data_list = SetLast(@,
                                   Max2(cuda_volume - s0.M.temp_grad_volume
                                            - Last(s0.M.model_data_list),
                                        allocated - s0.h.model_data_mem)),
                               !.M.temp_grad_volume = 0])
                   ELSE HookReturned([s0 EXCEPT !.M.non_model_data_list =
                               Append(@, cuda_volume - Last(s0.M.model_data_list))])
              ELSE HookReturned(s0)
    IN  IF s1.err # "none" THEN s1
        ELSE LET s2 == hook_sample_model_data([M |-> s1.M, h |-> s1.h], params) IN
             IF s2.err # "none" THEN s2
             ELSE HookReturned([M |-> s2.M,
                                h |-> [s2.h EXCEPT !.mem_monitor = MonitorStart(@)]])

pre_op(st, params, cuda_volume, allocated) ==
    LET s0 == [st EXCEPT !.h.mem_monitor = MonitorFinish(@)]
        s1 == IF Len(s0.M.model_data_list) # 0
              THEN IF s0.h._training_phase = "BACKWARD" /\ s0.M.temp_grad_volume > 0
                   THEN IF Len(s0.M.non_model_data_list) = 0
                        THEN HookRaised(s0, "IndexError")
                        ELSE HookReturned([s0 EXCEPT
                               !.M.non_model_data_list = SetLast(@,
                                   Max3(Last(s0.M.non_model_data_list),
                                        cuda_volume - s0.M.temp_grad_volume
                                            - Last(s0.M.model_data_list),
                                        allocated - s0.h.model_data_mem)),
                               !.M.temp_grad_volume = 0])
                   ELSE HookReturned([s0 EXCEPT !.M.non_model_data_list =
                               Append(@, cuda_volume - Last(s0.M.model_data_list))])
              ELSE HookReturned(s0)
    IN  IF s1.err # "none" THEN s1
        ELSE LET s2 == hook_sample_model_data([M |-> s1.M, h |-> s1.h], params) IN
             IF s2.err # "none" THEN s2
             ELSE HookReturned([M |-> s2.M,
                                h |-> [s2.h EXCEPT !.mem_monitor = MonitorStart(@)]])

\* post_op that never samples
post_op_NeverSamples(st, cuda_volume) == HookReturned(st)

\* post_op sampling after every backward operation, pending volume or not
post_op_AlwaysSamplesBackward(st, cuda_volume) ==
    IF st.h._training_phase = "BACKWARD"
    THEN IF Len(st.M.model_data_list) = 0
         THEN HookRaised([st EXCEPT !.h.mem_monitor = MonitorFinish(@)], "IndexError")
         ELSE HookReturned([st EXCEPT
                !.M.non_model_data_list = Append(@, cuda_volume - Last(st.M.model_data_list)),
                !.h.mem_monitor = MonitorStart(MonitorFinish(@))])
    ELSE HookReturned(st)

post_op(st, cuda_volume) ==
    IF st.h._training_phase = "BACKWARD" /\ st.M.temp_grad_volume > 0
    THEN IF Len(st.M.model_data_list) = 0
         THEN HookRaised([st EXCEPT !.h.mem_monitor = MonitorFinish(@)], "IndexError")
         ELSE HookReturned([st EXCEPT
                !.M.non_model_data_list = Append(@, cuda_volume - Last(st.M.model_data_list)),
                !.h.mem_monitor = MonitorStart(MonitorFinish(@))])
    ELSE HookReturned(st)

_clear_cuda_mem_info(st) ==
    [st EXCEPT !.M.model_data_list = << >>,
               !.M.non_model_data_list = << >>,
               !.M.unreleased_grad_flag = << >>,
               !.M.temp_grad_volume = 0]

_pre_forward(st) ==
    LET s0 == _clear_cuda_mem_info(st) IN
    HookReturned([s0 EXCEPT
        !.M.unreleased_grad_flag = [p \in {q \in Params : RequiresGrad(q)} |-> FALSE],
        !.h.mem_monitor = MonitorStart(@)])

_post_backward(st, cuda_volume, allocated) ==
    LET s0 == [st EXCEPT !.h.mem_monitor = MonitorFinish(@)] IN
    IF Len(s0.M.model_data_list) = 0 THEN HookRaised(s0, "IndexError")
    ELSE LET last_model_data == Last(s0.M.model_data_list) IN
         IF s0.M.temp_grad_volume > 0
         THEN IF Len(s0.M.non_model_data_list) = 0 THEN HookRaised(s0, "IndexError")
              ELSE HookReturned([s0 EXCEPT
                     !.M.non_model_data_list = SetLast(@,
                         Max3(Last(s0.M.non_model_data_list),
                              cuda_volume - s0.M.temp_grad_volume - Last(s0.M.model_data_list),
                              allocated - s0.h.model_data_mem)),
                     !.M.temp_grad_volume = 0])
         ELSE HookReturned([s0 EXCEPT !.M.non_model_data_list =
                     Append(@, cuda_volume - last_model_data)])

(***************************************************************************)
(* State after construction                                                *)
(***************************************************************************)
Outcome(op, arg, r) == [op |-> op, arg |-> arg, err |-> r.err, val |-> r.val]
HookOutcome(op, r) == [op |-> op, arg |-> "", err |-> r.err, val |-> 0]

\* params, cuda_volume and allocated are the operands of the last hook call and
\* what it read from the monitor and from torch.cuda.memory_allocated(); ctx holds
\* old_training_phase of every switch_training_phase context the caller has open
Idle ==
    [pc |-> "idle", inop |-> FALSE, n |-> 0, iter |-> 0, old_training_phase |-> "FORWARD",
     params |-> << >>, cuda_volume |-> 0, allocated |-> 0, ctx |-> << >>]

\* init_mem_stats is not running and has traced no graph yet
FrameIdle ==
    [ pc |-> "idle", i |-> 0, graph |-> << >>, nodes |-> << >>,
      total_mem |-> 0, peak_mem |-> 0,
      fwd_out_released |-> << >>, grad_in_computed |-> << >> ]

(***************************************************************************)
(* ParamWrapper (paramWrapper.py): the parameters' data, the copies saved   *)
(* on the CPU and the MemInfo ledger of its hook                            *)
(***************************************************************************)
PwParams == {"weight", "bias"}
\* a parameter's data as a number; a half-precision tensor holds even numbers only
DataVals == 0..3
to_dtype(val, dtype) == IF dtype = "half" THEN (val \div 2) * 2 ELSE val
\* cpu_param_data_dict has no entry for the parameter
NoCopy == -1

\* __init__: p.data = p.data.to(dtype) for every parameter, an empty dictionary
ParamWrapper__init__ ==
    [ data |-> [p \in PwParams |->
                  [val |-> to_dtype(IF p = "weight" THEN 3 ELSE 1, "half"),
                   dtype |-> "half", device |-> "cuda"]],
      cpu_param_data_dict |-> [p \in PwParams |-> NoCopy],
      model_data_list |-> << >>,
      non_model_data_list |-> << >>,
      unreleased_grad_volume |-> 0,
      mem_monitor |-> [open |-> FALSE],
      _training_phase |-> "FORWARD",
      pc |-> "idle", n |-> 0, iter |-> 0, cuda_volume |-> 0 ]

_clear_mem_info(w) ==
    [w EXCEPT !.model_data_list = << >>,
              !.non_model_data_list = << >>,
              !.unreleased_grad_volume = 0]

\* a CPU tensor of the wrapper's dtype is filled with copy_(p.data)
_save_param_data_on_cpu(w) ==
    [w EXCEPT !.cpu_param_data_dict = [p \in PwParams |-> to_dtype(w.data[p].val, "half")]]

\* p.data becomes a new CPU tensor of the wrapper's dtype filled from the saved
\* copy; a parameter without a copy raises KeyError
_restore_param_data(w) ==
    IF \E p \in PwParams : w.cpu_param_data_dict[p] = NoCopy
    THEN [self |-> w, err |-> "KeyError"]
    ELSE [self |-> [w EXCEPT
                     !.data = [p \in PwParams |->
                                 [val |-> to_dtype(w.cpu_param_data_dict[p], "half"),
                                  dtype |-> "half", device |-> "cpu"]],
                     !.cpu_param_data_dict = [p \in PwParams |-> NoCopy]],
          err |-> "none"]

ParamWrapper_pre_forward(w) ==
    [_save_param_data_on_cpu(_clear_mem_info(w)) EXCEPT !.mem_monitor = MonitorStart(@)]

\* finish() closes the window before model_data_list[-1] is read
ParamWrapper_post_backward(w, cuda_volume) ==
    LET w0 == [w EXCEPT !.mem_monitor = MonitorFinish(@)] IN
    IF Len(w0.model_data_list) = 0 THEN [self |-> w0, err |-> "IndexError"]
    ELSE _restore_param_data(
             [w0 EXCEPT !.non_model_data_list =
                            Append(@, cuda_volume - Last(w0.model_data_list))])

Init ==
    /\ msc = MemStatsCollector__init__
    /\ static = MemStatsCollectorStatic__init__
    /\ frame = FrameIdle
    /\ reads = 0
    /\ MemInfo = MemInfo__class__
    /\ hook = MyParamHook__init__(ModelMem)
    /\ drv = Idle
    /\ ret = [op |-> "__init__", arg |-> "", err |-> "none", val |-> 0]
    /\ pw = ParamWrapper__init__

hookVars == <<MemInfo, hook, drv, pw>>
mscVars == <<msc, static, frame, reads, pw>>

(***************************************************************************)
(* Calls on the MemStatsCollector                                          *)
(***************************************************************************)
\* room for one more sample within the bounds of the model
Room(self) ==
    /\ Len(self._overall_cuda_list) < MaxSamples
    /\ Len(self._sampling_time) < MaxSamples

StartCollection ==
    LET r == start_collection(msc) IN
    /\ msc' = r.self
    /\ reads' = 0
    /\ ret' = Outcome("start_collection", "", r)
    /\ UNCHANGED <<static, hookVars, frame>>

SampleModelData ==
    \E allocated \in AllocatedVals, cpu_mem \in CpuModelVals, numel \in WeightNumels :
        LET r == sample_model_data(msc, allocated, cpu_mem, numel) IN
        /\ msc._start_flag => Len(msc._model_data_cuda_list) < MaxSamples
        /\ msc' = r.self
        /\ ret' = Outcome("sample_model_data", "", r)
        /\ UNCHANGED <<static, reads, hookVars, frame>>

SampleOverallData ==
    \E peak \in PeakVals, cpu_used \in CpuUsedVals :
        LET r == sample_overall_data(msc, peak, cpu_used) IN
        /\ msc._start_flag => Room(msc)
        /\ msc' = r.self
        /\ ret' = Outcome("sample_overall_data", "", r)
        /\ UNCHANGED <<static, reads, hookVars, frame>>

FinishCollection ==
    \E peak \in PeakVals, cpu_used \in CpuUsedVals :
        LET r == finish_collection(msc, peak, cpu_used) IN
        /\ msc._start_flag => Room(msc)
        /\ msc' = r.self
        /\ reads' = 0
        /\ ret' = Outcome("finish_collection", "", r)
        /\ UNCHANGED <<static, hookVars, frame>>

Clear ==
    LET r == clear(msc) IN
    /\ msc' = r.self
    /\ reads' = 0
    /\ ret' = Outcome("clear", "", r)
    /\ UNCHANGED <<static, hookVars, frame>>

NextPeriod ==
    \E device_type \in DeviceTypes :
        LET r == next_period_non_model_data_usage(msc, device_type) IN
        /\ reads < MaxReads
        /\ msc' = r.self
        /\ reads' = IF r.err = "none" THEN reads + 1 ELSE reads
        /\ ret' = Outcome("next_period_non_model_data_usage", device_type, r)
        /\ UNCHANGED <<static, hookVars, frame>>

\* init_mem_stats of the static collector
InitMemStats ==
    \E graph \in Graphs :
        LET r == init_mem_stats(msc, static, graph) IN
        /\ Len(static.module_info_list) < MaxInitRuns * Len(Registry)
        /\ msc' = r.self
        /\ static' = r.stat
        /\ reads' = 0
        /\ ret' = Outcome("init_mem_stats", "", r)
        /\ UNCHANGED <<hookVars, frame>>

Next ==
    \/ StartCollection
    \/ SampleModelData
    \/ SampleOverallData
    \/ FinishCollection
    \/ Clear
    \/ NextPeriod
    \/ InitMemStats

Spec == Init /\ [][Next]_vars

(***************************************************************************)
(* The collector read through its three list accessors                     *)
(***************************************************************************)
\* the device tokens a caller passes to an accessor; an accessor returns the
\* collector's own list, which msc holds, and ret keeps its length
AccessTokens == DeviceTypes \cup {"CUDA", "gpu", ""}

OverallMemStats ==
    \E device_type \in AccessTokens :
        LET r == overall_mem_stats(msc, device_type) IN
        /\ msc' = r.self
        /\ ret' = [Outcome("overall_mem_stats", device_type, r) EXCEPT !.val = IF r.err = "none" THEN Len(r.val) ELSE 0]
        /\ UNCHANGED <<static, reads, hookVars, frame>>

ModelDataList ==
    \E device_type \in AccessTokens :
        LET r == model_data_list(msc, device_type) IN
        /\ msc' = r.self
        /\ ret' = [Outcome("model_data_list", device_type, r) EXCEPT !.val = IF r.err = "none" THEN Len(r.val) ELSE 0]
        /\ UNCHANGED <<static, reads, hookVars, frame>>

NonModelDataList ==
    \E device_type \in AccessTokens :
        LET r == non_model_data_list(msc, device_type) IN
        /\ msc' = r.self
        /\ ret' = [Outcome("non_model_data_list", device_type, r) EXCEPT !.val = IF r.err = "none" THEN Len(r.val) ELSE 0]
        /\ UNCHANGED <<static, reads, hookVars, frame>>

NextPeriodAnyToken ==
    \E device_type \in AccessTokens :
        LET r == next_period_non_model_data_usage(msc, device_type) IN
        /\ reads < MaxReads
        /\ msc' = r.self
        /\ reads' = IF r.err = "none" THEN reads + 1 ELSE reads
        /\ ret' = Outcome("next_period_non_model_data_usage", device_type, r)
        /\ UNCHANGED <<static, hookVars, frame>>

NextAccess ==
    \/ StartCollection
    \/ SampleModelData
    \/ SampleOverallData
    \/ FinishCollection
    \/ Clear
    \/ OverallMemStats
    \/ ModelDataList
    \/ NonModelDataList
    \/ NextPeriodAnyToken

SpecAccess == Init /\ [][NextAccess]_vars

(***************************************************************************)
(* init_mem_stats one loop pass at a time                                  *)
(***************************************************************************)
\* most runs of init_mem_stats on one static collector
MaxStaticRuns == 2

\* x -> relu -> output: a module without a registered child
PlainGraph(a) ==
    << GraphNode(<<"x">>, "placeholder", <<"x">>, << >>, 0, a, 0, 0, <<a>>),
       GraphNode(<<"r", "e", "l", "u">>, "call_function", <<"r", "e", "l", "u">>,
                 <<1>>, 1, a, 1, a, <<a>>),
       GraphNode(<<"o", "u", "t", "p", "u", "t">>, "output", <<"o", "u", "t", "p", "u", "t">>,
                 <<2>>, 0, 0, 1, 1, << >>) >>

\* the result of fc1 feeds add(h, h) and mul(h, add)
FanOutGraph(a) ==
    << GraphNode(<<"x">>, "placeholder", <<"x">>, << >>, 0, a, 0, 0, <<a>>),
       GraphNode(<<"f", "c", "1", "_", "0">>, "call_module", <<"f", "c", "1", ".", "0">>,
                 <<1>>, 0, 0, 0, a, <<a>>),
       GraphNode(<<"f", "c", "1", "_", "1">>, "call_module", <<"f", "c", "1", ".", "1">>,
                 <<2>>, 1, a, 1, a, <<a>>),
       GraphNode(<<"a", "d", "d">>, "call_function", <<"a", "d", "d">>,
                 <<3, 3>>, 0, a, 0, a, <<a>>),
       GraphNode(<<"m", "u", "l">>, "call_function", <<"m", "u", "l">>,
                 <<3, 4>>, 0, a, 2, a, <<a>>),
       GraphNode(<<"o", "u", "t", "p", "u", "t">>, "output", <<"o", "u", "t", "p", "u", "t">>,
                 <<5>>, 0, 0, 0, 0, << >>) >>

\* the result of fc1 goes through where(mask, h) and a true division
SkipGraph(a) ==
    << GraphNode(<<"x">>, "placeholder", <<"x">>, << >>, 0, a, 0, 0, <<a>>),
       GraphNode(<<"f", "c", "1", "_", "0">>, "call_module", <<"f", "c", "1", ".", "0">>,
                 <<1>>, 0, 0, 0, a, <<a>>),
       GraphNode(<<"f", "c", "1", "_", "1">>, "call_module", <<"f", "c", "1", ".", "1">>,
                 <<2>>, 1, a, 1, a, <<a>>),
       GraphNode(<<"m", "a", "s", "k">>, "get_attr", <<"m", "a", "s", "k">>,
                 << >>, 0, 2, 0, 0, <<2>>),
       GraphNode(<<"w", "h", "e", "r", "e">>, "call_function", <<"w", "h", "e", "r", "e">>,
                 <<4, 3>>, 1, a, 1, a, <<a>>),
       GraphNode(<<"t", "r", "u", "e", "d", "i", "v", "_", "1">>, "call_function",
                 <<"t", "r", "u", "e", "d", "i", "v">>,
                 <<5>>, 1, a, 2, a, <<a>>),
       GraphNode(<<"o", "u", "t", "p", "u", "t">>, "output", <<"o", "u", "t", "p", "u", "t">>,
                 <<6>>, 0, 0, 0, 0, << >>) >>

\* fc1 called twice in a row
TwiceGraph(a) ==
    << GraphNode(<<"x">>, "placeholder", <<"x">>, << >>, 0, a, 0, 0, <<a>>),
       GraphNode(<<"f", "c", "1", "_", "0">>, "call_module", <<"f", "c", "1", ".", "0">>,
                 <<1>>, 0, 0, 0, a, <<a>>),
       GraphNode(<<"f", "c", "1", "_", "1">>, "call_module", <<"f", "c", "1", ".", "1">>,
                 <<2>>, 1, a, 1, a, <<a>>),
       GraphNode(<<"f", "c", "1", "_", "0", "_", "1">>, "call_module",
                 <<"f", "c", "1", ".", "0">>,
                 <<3>>, 0, 0, 0, a, <<a>>),
       GraphNode(<<"f", "c", "1", "_", "1", "_", "1">>, "call_module",
                 <<"f", "c", "1", ".", "1">>,
                 <<4>>, 1, a, 1, a, <<a>>),
       GraphNode(<<"o", "u", "t", "p", "u", "t">>, "output", <<"o", "u", "t", "p", "u", "t">>,
                 <<5>>, 0, 0, 0, 0, << >>) >>

\* the output node lists the result of fc2 twice
OutputTwiceGraph(a) ==
    << GraphNode(<<"x">>, "placeholder", <<"x">>, << >>, 0, a, 0, 0, <<a>>),
       GraphNode(<<"f", "c", "2", "_", "0">>, "call_module", <<"f", "c", "2", ".", "0">>,
                 <<1>>, 0, 0, 0, a, <<a>>),
       GraphNode(<<"f", "c", "2", "_", "1">>, "call_module", <<"f", "c", "2", ".", "1">>,
                 <<2>>, 1, a, 1, a, <<a>>),
       GraphNode(<<"o", "u", "t", "p", "u", "t">>, "output", <<"o", "u", "t", "p", "u", "t">>,
                 <<3, 3>>, 0, 0, 0, 0, << >>) >>

\* a module drop that the registry does not hold is called through a
\* Sequential of its own, drop.0, in front of fc1
UnresolvedGraph(a) ==
    << GraphNode(<<"x">>, "placeholder", <<"x">>, << >>, 0, a, 0, 0, <<a>>),
       GraphNode(<<"d", "r", "o", "p", "_", "0">>, "call_module", <<"d", "r", "o", "p", ".", "0">>,
                 <<1>>, 1, a, 2, a, <<a>>),
       GraphNode(<<"f", "c", "1", "_", "0">>, "call_module", <<"f", "c", "1", ".", "0">>,
                 <<2>>, 0, 0, 0, a, <<a>>),
       GraphNode(<<"f", "c", "1", "_", "1">>, "call_module", <<"f", "c", "1", ".", "1">>,
                 <<3>>, 1, a, 1, a, <<a>>),
       GraphNode(<<"o", "u", "t", "p", "u", "t">>, "output", <<"o", "u", "t", "p", "u", "t">>,
                 <<4>>, 0, 0, 0, 0, << >>) >>

\* x -> fc1.0 -> fc1.1 -> fc2.0 -> fc2.1 -> output with the sizes z: z.x is
\* the forward output of the input, z.m1 and z.m2 those of the two markers,
\* z.l1 and z.l2 the four sizes of the two layers
TwoLayerGraph(z) ==
    << GraphNode(<<"x">>, "placeholder", <<"x">>, << >>, 0, z.x, 0, 0, <<z.x>>),
       GraphNode(<<"f", "c", "1", "_", "0">>, "call_module", <<"f", "c", "1", ".", "0">>,
                 <<1>>, 0, z.m1, 0, z.x, <<z.m1>>),
       GraphNode(<<"f", "c", "1", "_", "1">>, "call_module", <<"f", "c", "1", ".", "1">>,
                 <<2>>, z.l1.fwd_tmp, z.l1.fwd_out, z.l1.bwd_mem_tmp, z.l1.bwd_mem_out,
                 <<z.l1.fwd_out>>),
       GraphNode(<<"f", "c", "2", "_", "0">>, "call_module", <<"f", "c", "2", ".", "0">>,
                 <<3>>, 0, z.m2, 0, z.l1.fwd_out, <<z.m2>>),
       GraphNode(<<"f", "c", "2", "_", "1">>, "call_module", <<"f", "c", "2", ".", "1">>,
                 <<4>>, z.l2.fwd_tmp, z.l2.fwd_out, z.l2.bwd_mem_tmp, z.l2.bwd_mem_out,
                 <<z.l2.fwd_out>>),
       GraphNode(<<"o", "u", "t", "p", "u", "t">>, "output", <<"o", "u", "t", "p", "u", "t">>,
                 <<5>>, 0, 0, 0, 0, << >>) >>
\* the byte sizes MetaInfoProp annotates the chain with
ChainBytes == {0, 3}
LayerSizes == [fwd_tmp : ChainBytes, fwd_out : ChainBytes,
               bwd_mem_tmp : ChainBytes, bwd_mem_out : ChainBytes]
ChainSizes == [x : ChainBytes, m1 : ChainBytes, m2 : ChainBytes,
               l1 : LayerSizes, l2 : LayerSizes]
TwoLayerGraphs == {TwoLayerGraph(z) : z \in ChainSizes}

\* stands for an entry that node.meta does not have
NoMeta == -1
\* MetaInfoProp left the layer of fc1 without size metadata
UnannotatedGraph(a) ==
    << GraphNode(<<"x">>, "placeholder", <<"x">>, << >>, 0, a, 0, 0, <<a>>),
       GraphNode(<<"f", "c", "1", "_", "0">>, "call_module", <<"f", "c", "1", ".", "0">>,
                 <<1>>, 0, 0, 0, a, <<a>>),
       GraphNode(<<"f", "c", "1", "_", "1">>, "call_module", <<"f", "c", "1", ".", "1">>,
                 <<2>>, NoMeta, NoMeta, NoMeta, NoMeta, << >>),
       GraphNode(<<"o", "u", "t", "p", "u", "t">>, "output", <<"o", "u", "t", "p", "u", "t">>,
                 <<3>>, 0, 0, 0, 0, << >>) >>
\* calculate_fwd_tmp(node) finds what it reads in node.meta
HasMeta(node) == node.fwd_tmp # NoMeta /\ node.fwd_out # NoMeta

StaticActivationBytes == {4, 8}
StaticGraphs ==
    UNION {{ChainGraph(a), PlainGraph(a), FanOutGraph(a), SkipGraph(a), TwiceGraph(a),
            OutputTwiceGraph(a), UnresolvedGraph(a), UnannotatedGraph(a)} :
           a \in StaticActivationBytes}
      \cup TwoLayerGraphs

\* the local variables of init_mem_stats, with the sample list of the collector
Locals == [ nodes |-> frame.nodes, total_mem |-> frame.total_mem,
            peak_mem |-> frame.peak_mem,
            fwd_out_released |-> frame.fwd_out_released,
            grad_in_computed |-> frame.grad_in_computed,
            samples |-> msc._non_model_data_cuda_list ]

\* the frame and the collector after a loop pass that left the locals as s
Stepped(s, pc, i) ==
    /\ frame' = [ pc |-> pc, i |-> i, graph |-> frame.graph, nodes |-> s.nodes,
                  total_mem |-> s.total_mem, peak_mem |-> s.peak_mem,
                  fwd_out_released |-> s.fwd_out_released,
                  grad_in_computed |-> s.grad_in_computed ]
    /\ msc' = [msc EXCEPT !._non_model_data_cuda_list = s.samples]

\* lines 177-195: registration, refactoring, tracing; one collector traces the
\* same module with the same inputs every time, so it gets the same graph.
\* The walk of register_opnodes_recursively is modelled for the original tree,
\* so a run starts from a tree that holds no wrapper.
StaticBegin ==
    \E graph \in StaticGraphs :
        LET registered == register_opnodes_recursively(static.module_info_list, "net",
                                                       << >>, << >>, "None")
            refactored == refactor_module(static.attr, registered)
        IN  /\ frame.pc = "idle"
            /\ frame.graph \in {<< >>, graph}
            /\ static.attr = TreeAttrs__init__
            /\ Len(static.module_info_list) < MaxStaticRuns * Len(Registry)
            /\ static' = [module_info_list |-> registered, attr |-> refactored.attr]
            /\ IF refactored.err # "none"
               THEN /\ frame' = frame
                    /\ ret' = [op |-> "init_mem_stats", arg |-> "",
                               err |-> refactored.err, val |-> 0]
               ELSE /\ frame' = [ pc |-> "forward", i |-> 1, graph |-> graph,
                                  nodes |-> graph, total_mem |-> 0, peak_mem |-> 0,
                                  fwd_out_released |-> [i \in 1..Len(graph) |-> "absent"],
                                  grad_in_computed |-> [i \in 1..Len(graph) |-> FALSE] ]
                    /\ ret' = ret
            /\ UNCHANGED <<msc, reads, hookVars>>

\* one pass of the loop of lines 197-207; a node without size metadata makes
\* line 199 raise, and the exception leaves init_mem_stats
StaticForward ==
    /\ frame.pc = "forward"
    /\ frame.i <= Len(frame.nodes)
    /\ IF HasMeta(frame.nodes[frame.i])
       THEN /\ Stepped(ForwardNode(Locals, frame.i,
                                   ModuleNameList(static.module_info_list)),
                       "forward", frame.i + 1)
            /\ ret' = ret
       ELSE /\ frame' = [FrameIdle EXCEPT !.graph = frame.graph]
            /\ msc' = msc
            /\ ret' = [op |-> "init_mem_stats", arg |-> "", err |-> "KeyError", val |-> 0]
    /\ UNCHANGED <<static, reads, hookVars>>

\* lines 211-215, between the two loops
StaticTurn ==
    /\ frame.pc = "forward"
    /\ frame.i > Len(frame.nodes)
    /\ Stepped([Locals EXCEPT !.samples = Tail(Append(@, frame.total_mem)),
                              !.peak_mem = frame.total_mem],
               "backward", Len(frame.nodes))
    /\ UNCHANGED <<static, reads, ret, hookVars>>

\* one pass of the reversed loop of lines 217-274
StaticBackward ==
    /\ frame.pc = "backward"
    /\ frame.i >= 1
    /\ Stepped(BackwardNode(Locals, frame.i, ModuleNameList(static.module_info_list)),
               "backward", frame.i - 1)
    /\ UNCHANGED <<static, reads, ret, hookVars>>

\* lines 276-277: the total is set and the tree recovered; the locals die
StaticFinish ==
    LET recovered == recover_module(static.attr, static.module_info_list) IN
    /\ frame.pc = "backward"
    /\ frame.i < 1
    /\ msc' = [msc EXCEPT !._step_total = Len(msc._non_model_data_cuda_list)]
    /\ static' = [static EXCEPT !.attr = recovered.attr]
    /\ frame' = [FrameIdle EXCEPT !.graph = frame.graph]
    /\ ret' = [op |-> "init_mem_stats", arg |-> "", err |-> recovered.err, val |-> 0]
    /\ UNCHANGED <<reads, hookVars>>

NextStatic ==
    \/ StaticBegin
    \/ StaticForward
    \/ StaticTurn
    \/ StaticBackward
    \/ StaticFinish

SpecStatic == Init /\ [][NextStatic]_vars

(***************************************************************************)
(* One iteration of MyParamWrapper: forward(), the hooks the dispatcher    *)
(* calls around every parameter operation, backward()                      *)
(***************************************************************************)
HookState == [M |-> MemInfo, h |-> hook]

\* forward(): zero_grad, _pre_forward(), then the module runs under the hooks
Forward ==
    LET r == _pre_forward(HookState) IN
    /\ drv.pc \in {"idle", "fwd"}
    /\ ~drv.inop
    /\ drv.ctx = << >>
    /\ drv.iter < MaxIters
    /\ MemInfo' = r.M
    /\ hook' = r.h
    /\ drv' = [drv EXCEPT !.pc = "fwd", !.n = 0, !.iter = @ + 1]
    /\ ret' = HookOutcome("forward", r)
    /\ UNCHANGED mscVars

\* an exception raised inside a hook leaves the module call or loss.backward();
\* leaving backward()'s with block restores the training phase
Unwind(h) ==
    IF drv.pc = "bwd" THEN [h EXCEPT !._training_phase = drv.old_training_phase] ELSE h

\* pre_forward / pre_backward
PreOp ==
    \E params \in ParamLists, cuda_volume \in HookPeakVals, allocated \in HookAllocatedVals :
        LET r == pre_op(HookState, params, cuda_volume, allocated) IN
        /\ drv.pc \in {"fwd", "bwd"}
        /\ ~drv.inop
        /\ drv.n < MaxPairs
        /\ MemInfo' = r.M
        /\ hook' = IF r.err = "none" THEN r.h ELSE Unwind(r.h)
        /\ drv' = [IF r.err = "none" THEN [drv EXCEPT !.inop = TRUE]
                   ELSE [drv EXCEPT !.pc = "idle"]
                   EXCEPT !.params = params, !.cuda_volume = cuda_volume,
                          !.allocated = allocated]
        /\ ret' = HookOutcome("pre_op", r)
        /\ UNCHANGED mscVars

\* post_forward / post_backward
PostOp ==
    \E cuda_volume \in HookPeakVals :
        LET r == post_op(HookState, cuda_volume) IN
        /\ drv.pc \in {"fwd", "bwd"}
        /\ drv.inop
        /\ MemInfo' = r.M
        /\ hook' = IF r.err = "none" THEN r.h ELSE Unwind(r.h)
        /\ drv' = [IF r.err = "none" THEN [drv EXCEPT !.inop = FALSE, !.n = @ + 1]
                   ELSE [drv EXCEPT !.pc = "idle", !.inop = FALSE]
                   EXCEPT !.cuda_volume = IF hook.mem_monitor # r.h.mem_monitor
                                             \/ MemInfo # r.M \/ r.err # "none"
                                          THEN cuda_volume ELSE @]
        /\ ret' = HookOutcome("post_op", r)
        /\ UNCHANGED mscVars

\* backward(): enters switch_to_backward(), then loss.backward() runs under the hooks
switch_training_phase_enter(h, training_phase) == [h EXCEPT !._training_phase = training_phase]
switch_training_phase_exit_KeepsPhase(h, old_training_phase) == h
switch_training_phase_exit(h, old_training_phase) == [h EXCEPT !._training_phase = old_training_phase]

Backward ==
    /\ drv.pc = "fwd"
    /\ ~drv.inop
    /\ hook' = switch_training_phase_enter(hook, "BACKWARD")
    /\ drv' = [drv EXCEPT !.pc = "bwd", !.old_training_phase = hook._training_phase]
    /\ ret' = [op |-> "switch_to_backward", arg |-> "", err |-> "none", val |-> 0]
    /\ UNCHANGED <<MemInfo, mscVars>>

\* loss.backward() has returned: the with block is left, then _post_backward()
BackwardReturn ==
    \E cuda_volume \in HookPeakVals, allocated \in HookAllocatedVals :
        LET h0 == switch_training_phase_exit(hook, drv.old_training_phase)
            r == _post_backward([M |-> MemInfo, h |-> h0], cuda_volume, allocated)
        IN  /\ drv.pc = "bwd"
            /\ ~drv.inop
            /\ MemInfo' = r.M
            /\ hook' = r.h
            /\ drv' = [drv EXCEPT !.pc = "idle", !.cuda_volume = cuda_volume,
                                   !.allocated = allocated]
            /\ ret' = HookOutcome("backward", r)
            /\ UNCHANGED mscVars

\* a caller enters switch_training_phase(training_phase) on the hook before the
\* first iteration, possibly inside a context that is already open
TrainingPhases == {"FORWARD", "BACKWARD"}

SwitchEnter ==
    \E training_phase \in TrainingPhases :
        /\ drv.pc = "idle"
        /\ drv.iter = 0
        /\ Len(drv.ctx) < MaxNesting
        /\ hook' = switch_training_phase_enter(hook, training_phase)
        /\ drv' = [drv EXCEPT !.ctx = Append(@, hook._training_phase)]
        /\ ret' = [op |-> "switch_training_phase", arg |-> training_phase,
                   err |-> "none", val |-> 0]
        /\ UNCHANGED <<MemInfo, mscVars>>

\* the innermost context is left, by its body ending or by an exception raised in
\* it: the finally clause runs either way; arg is the phase the body ran with
SwitchExit ==
    \E err \in {"none", "Exception"} :
        /\ drv.pc = "idle"
        /\ drv.ctx # << >>
        /\ hook' = switch_training_phase_exit(hook, drv.ctx[Len(drv.ctx)])
        /\ drv' = [drv EXCEPT !.ctx = SubSeq(@, 1, Len(@) - 1)]
        /\ ret' = [op |-> "switch_training_phase_exit", arg |-> hook._training_phase,
                   err |-> err, val |-> 0]
        /\ UNCHANGED <<MemInfo, mscVars>>

NextHook ==
    \/ Forward
    \/ PreOp
    \/ PostOp
    \/ Backward
    \/ BackwardReturn
    \/ SwitchEnter
    \/ SwitchExit

SpecHook == Init /\ [][NextHook]_vars

(***************************************************************************)
(* One iteration of ParamWrapper: forward(), the parameter operations the   *)
(* dispatcher wraps in the hooks, backward()                                *)
(***************************************************************************)
pwRest == <<msc, static, frame, reads, MemInfo, hook, drv>>

\* forward(): zero_grad, _pre_forward(), then the module runs under the hooks
PwForward ==
    /\ pw.pc \in {"idle", "fwd"}
    /\ pw.iter < MaxIters
    /\ pw' = [ParamWrapper_pre_forward(pw) EXCEPT !.pc = "fwd", !.n = 0, !.iter = @ + 1]
    /\ ret' = [op |-> "forward", arg |-> "", err |-> "none", val |-> 0]
    /\ UNCHANGED pwRest

\* a parameter operation of the module or of loss.backward() under the hooks:
\* the hooks may replace the data of a parameter by a tensor of any content,
\* dtype and device, and may record a model-data sample
ModelSamples == {ModelMem}
HookedData == [val : DataVals, dtype : {"half", "float"}, device : {"cuda"}]

PwHookedOp ==
    \E p \in PwParams, d \in HookedData, sampled \in BOOLEAN, m \in ModelSamples :
        /\ pw.pc \in {"fwd", "bwd"}
        /\ pw.n < MaxPairs
        /\ d.dtype = "half" => d.val = to_dtype(d.val, "half")
        /\ pw' = [pw EXCEPT !.data[p] = d,
                            !.model_data_list = IF sampled THEN Append(@, m) ELSE @,
                            !.n = @ + 1]
        /\ ret' = [op |-> "hooked_op", arg |-> p, err |-> "none", val |-> 0]
        /\ UNCHANGED pwRest

\* backward(): enters switch_to_backward(), then loss.backward() runs under the hooks
PwBackward ==
    /\ pw.pc = "fwd"
    /\ pw' = [switch_training_phase_enter(pw, "BACKWARD") EXCEPT !.pc = "bwd"]
    /\ ret' = [op |-> "switch_to_backward", arg |-> "", err |-> "none", val |-> 0]
    /\ UNCHANGED pwRest

\* loss.backward() has returned: the with block is left, then _post_backward()
PwBackwardReturn ==
    \E cuda_volume \in HookPeakVals :
        LET r == ParamWrapper_post_backward(
                     switch_training_phase_exit(pw, "FORWARD"), cuda_volume)
        IN  /\ pw.pc = "bwd"
            /\ pw' = [r.self EXCEPT !.pc = "idle", !.cuda_volume = cuda_volume]
            /\ ret' = [op |-> "backward", arg |-> "", err |-> r.err, val |-> 0]
            /\ UNCHANGED pwRest

NextParam ==
    \/ PwForward
    \/ PwHookedOp
    \/ PwBackward
    \/ PwBackwardReturn

SpecParam == Init /\ [][NextParam]_vars

(***************************************************************************)
(* Properties                                                              *)
(***************************************************************************)
NextPeriodName == "next_period_non_model_data_usage"

\* C1: an iteration of the hook-driven collector made of _pre_forward, n >= 1
\* pre_op/post_op pairs and _post_backward completes without error and leaves
\* len(non_model_data_list) = len(model_data_list) = n.
C1_IterationLengths ==
    (ret.op = "backward" /\ drv.n >= 1) =>
        /\ ret.err = "none"
        /\ Len(MemInfo.model_data_list) = drv.n
        /\ Len(MemInfo.non_model_data_list) = drv.n

\* an iteration has completed after three pairs, some of them backward pairs that
\* counted a gradient (the running estimate has grown)
C1_Witness ==
    /\ ret.op = "backward"
    /\ ret.err = "none"
    /\ drv.n = 3
    /\ Len(MemInfo.non_model_data_list) = 3
    /\ hook.model_data_mem > ModelMem

\* C2 as stated: after every completed boundary crossing (a pre_op and its
\* post_op) the two sample lists have the same length.
C2_EqualAfterCrossing ==
    (ret.op = "post_op" /\ ret.err = "none") =>
        Len(MemInfo.model_data_list) = Len(MemInfo.non_model_data_list)

\* C2 amended: after every completed boundary crossing the non-model list is one
\* sample short of the model-data list, unless the crossing left pending gradient
\* volume > 0, in which case post_op has appended a sample and the lengths are equal.
C2_LagAfterCrossing ==
    (ret.op = "post_op" /\ ret.err = "none") =>
        /\ MemInfo.temp_grad_volume = 0 =>
             Len(MemInfo.non_model_data_list) = Len(MemInfo.model_data_list) - 1
        /\ MemInfo.temp_grad_volume > 0 =>
             Len(MemInfo.non_model_data_list) = Len(MemInfo.model_data_list)

\* a backward crossing has completed with pending gradient volume
C2_Witness ==
    /\ ret.op = "post_op"
    /\ ret.err = "none"
    /\ hook._training_phase = "BACKWARD"
    /\ MemInfo.temp_grad_volume > 0
    /\ Len(MemInfo.model_data_list) >= 2

\* the recorded non-model sequence of a device
RecordedList(device_type) ==
    IF device_type = "cuda" THEN msc._non_model_data_cuda_list
    ELSE msc._non_model_data_cpu_list

\* C3: once collection has finished with total > 0 (on a collector that ran no
\* static simulation), replay is a pure rotation: no call for a supported device
\* fails, and the i-th call since the collection finished returns sample
\* ((i - 1) mod total) of the recorded sequence.
C3_ReplayRotation ==
    (ret.op = NextPeriodName /\ ret.arg \in {"cuda", "cpu"}
        /\ Len(static.module_info_list) = 0
        /\ ~msc._start_flag /\ msc._step_total > 0) =>
        /\ ret.err = "none"
        /\ LET j == ((reads - 1) % msc._step_total) + 1 IN
           /\ j <= Len(RecordedList(ret.arg))
           /\ ret.val = RecordedList(ret.arg)[j]

\* C4: whenever finish_collection or init_mem_stats has returned, _step_total is
\* the length of the non-model-data sequence.
C4_TotalIsLength ==
    (ret.op \in {"finish_collection", "init_mem_stats"} /\ ret.err = "none") =>
        msc._step_total = Len(msc._non_model_data_cuda_list)

\* C5: next_period_non_model_data_usage fails while collecting and while total
\* is 0, and the failed call changes nothing.
C5_NextPeriodRefused ==
    [][(ret'.op = NextPeriodName /\ (msc._start_flag \/ msc._step_total = 0)) =>
          (ret'.err = "AssertionError" /\ msc' = msc /\ reads' = reads)]_vars

\* a read was refused during a second collection, after an earlier one had finished
C5_Witness ==
    /\ ret.op = NextPeriodName
    /\ ret.err = "AssertionError"
    /\ msc._start_flag
    /\ msc._step_total > 0
    /\ Len(msc._non_model_data_cuda_list) > 0

\* C6 as stated: while collecting, sample_overall_data fails whenever
\* len(model) # len(non-model) + 1 on entry, and the second of two consecutive
\* calls fails.
C6_FailsOnMismatch ==
    [][(ret'.op = "sample_overall_data" /\ msc._start_flag) =>
          /\ Len(msc._model_data_cuda_list) # Len(msc._non_model_data_cuda_list) + 1
                => ret'.err # "none"
          /\ ret.op = "sample_overall_data" => ret'.err # "none"]_vars

\* C6 amended: while collecting, sample_overall_data returns without effect when
\* no model-data sample has been taken; with at least one, it fails whenever
\* len(model) # len(overall) + 1 on entry; and the second of two consecutive calls
\* fails when the first one recorded a sample.
C6_FailsOnMismatchAmended ==
    [][(ret'.op = "sample_overall_data" /\ msc._start_flag) =>
          /\ Len(msc._model_data_cuda_list) = 0 => (ret'.err = "none" /\ msc' = msc)
          /\ (/\ Len(msc._model_data_cuda_list) > 0
              /\ Len(msc._model_data_cuda_list) # Len(msc._overall_cuda_list) + 1)
                => ret'.err = "AssertionError"
          /\ (/\ ret.op = "sample_overall_data"
              /\ ret.err = "none"
              /\ Len(msc._model_data_cuda_list) > 0)
                => ret'.err = "AssertionError"]_vars

\* sample_overall_data has failed on its length assertion
C6_Witness ==
    /\ ret.op = "sample_overall_data"
    /\ ret.err = "AssertionError"
    /\ msc._start_flag
    /\ Len(msc._overall_cuda_list) = Len(msc._non_model_data_cuda_list) + 1

\* C7: start_collection called while collecting fails and changes nothing.
C7_StartWhileCollecting ==
    [][(ret'.op = "start_collection" /\ msc._start_flag) =>
          (ret'.err # "none" /\ msc' = msc)]_vars

\* C8: after clear() the collector is as newly constructed (the open or closed
\* state of the monitor window aside).
C8_ClearIsFresh ==
    ret.op = "clear" =>
        [msc EXCEPT !._mem_monitor = MemStatsCollector__init__._mem_monitor]
            = MemStatsCollector__init__

\* C9: outside Collecting, sample_model_data and sample_overall_data return
\* normally and change nothing of the collector.
C9_SamplingFrozen ==
    [][(ret'.op \in {"sample_model_data", "sample_overall_data"} /\ ~msc._start_flag) =>
          (ret'.err = "none" /\ msc' = msc /\ reads' = reads)]_vars

\* sample_model_data was called after a collection had finished with samples
C9_Witness ==
    /\ ret.op = "sample_model_data"
    /\ ~msc._start_flag
    /\ msc._step_total > 0
    /\ Len(msc._model_data_cuda_list) > 0
    /\ Len(msc._non_model_data_cuda_list) > 0

\* C10: finish_collection called outside Collecting fails and changes nothing.
C10_FinishOutsideCollecting ==
    [][(ret'.op = "finish_collection" /\ ~msc._start_flag) =>
          (ret'.err # "none" /\ msc' = msc)]_vars

\* C11: overall_mem_stats, model_data_list, non_model_data_list and
\* next_period_non_model_data_usage fail for every device token other than
\* 'cpu' and 'cuda', and such a failing call leaves the collector, the replay
\* cursor included, as it was.
AccessorNames == {"overall_mem_stats", "model_data_list", "non_model_data_list"}

C11_UnsupportedDeviceFails ==
    [][((ret'.op \in AccessorNames \cup {NextPeriodName}) /\ ret'.arg \notin {"cpu", "cuda"}) =>
          (/\ ret'.err \in {"TypeError", "AssertionError"}
           /\ (ret'.op \in AccessorNames => ret'.err = "TypeError")
           /\ msc' = msc
           /\ msc'._step_idx = msc._step_idx
           /\ reads' = reads)]_vars

\* a replay call with an unsupported token refused by the accessor, on a
\* collector that has replayed one sample of a two-sample recording
C11_Witness ==
    /\ ret.op = NextPeriodName
    /\ ret.arg \notin {"cpu", "cuda"}
    /\ ret.err = "TypeError"
    /\ msc._step_total = 2
    /\ msc._step_idx = 1

\* C12: in both collectors the monitor is a scoped window: start() is only
\* called on a closed window and finish() only on an open one, over every
\* sequence of operations, and no window is open once the collector has left
\* Collecting through finish_collection, clear, _post_backward or an error of a
\* sampling operation.
C12_ScopedWindow ==
    [][/\ (ret'.op = "start_collection") => ~msc._mem_monitor.open
       /\ (ret'.op = "finish_collection") => msc._mem_monitor.open
       /\ (ret'.op = "sample_overall_data" /\ msc' # msc) => msc._mem_monitor.open
       /\ (ret'.op \in {"finish_collection", "clear"}) => ~msc'._mem_monitor.open
       /\ (ret'.op \in {"sample_overall_data", "finish_collection"} /\ ret'.err # "none") =>
              ~msc'._mem_monitor.open
       /\ (ret'.op = "forward") => ~hook.mem_monitor.open
       /\ (ret'.op = "pre_op") => hook.mem_monitor.open
       /\ (ret'.op = "post_op" /\ MemInfo' # MemInfo) => hook.mem_monitor.open
       /\ (ret'.op = "backward") => (hook.mem_monitor.open /\ ~hook'.mem_monitor.open)
       /\ (ret'.op \in {"pre_op", "post_op"} /\ ret'.err # "none") => ~hook'.mem_monitor.open]_vars

\* the pending volume one backward sample_model_data adds, starting from 0:
\* the bytes of every trainable parameter of params[i..] whose gradient was
\* already counted, by an earlier operation (flags) or earlier in the list (seen)
RECURSIVE PendingAdded(_, _, _, _)
PendingAdded(flags, params, i, seen) ==
    IF i > Len(params) THEN 0
    ELSE LET p == params[i] IN
         IF ~RequiresGrad(p) THEN PendingAdded(flags, params, i + 1, seen)
         ELSE (IF flags[p] \/ p \in seen THEN ParamBytes(p) ELSE 0)
                 + PendingAdded(flags, params, i + 1, seen \cup {p})

\* the reconciled value: the largest of the sample replaced, the window peak
\* less pending and last model-data sample, and allocated less the running
\* model-data estimate
Reconciled ==
    Max3(Last(MemInfo.non_model_data_list),
         drv'.cuda_volume - MemInfo.temp_grad_volume - Last(MemInfo.model_data_list),
         drv'.allocated - hook.model_data_mem)

\* C13: a pre_op of the backward phase that finds pending volume, and likewise
\* _post_backward, overwrites the last non-model sample with the reconciled
\* value, never smaller than the sample replaced, appends nothing and resets
\* pending to 0 before the new model-data sample is taken; every other pre_op
\* that finds a model-data sample appends exactly one sample, window peak less
\* last model-data sample.
C13_Reconciliation ==
    [][/\ (ret'.op = "pre_op" /\ ret'.err = "none" /\ Len(MemInfo.model_data_list) > 0) =>
            IF hook._training_phase = "BACKWARD" /\ MemInfo.temp_grad_volume > 0
            THEN /\ MemInfo'.non_model_data_list =
                        SetLast(MemInfo.non_model_data_list, Reconciled)
                 /\ Last(MemInfo'.non_model_data_list) >= Last(MemInfo.non_model_data_list)
                 /\ MemInfo'.temp_grad_volume =
                        PendingAdded(MemInfo.unreleased_grad_flag, drv'.params, 1, {})
            ELSE MemInfo'.non_model_data_list =
                    Append(MemInfo.non_model_data_list,
                           drv'.cuda_volume - Last(MemInfo.model_data_list))
       /\ (ret'.op = "backward" /\ ret'.err = "none" /\ MemInfo.temp_grad_volume > 0) =>
            /\ MemInfo'.non_model_data_list =
                   SetLast(MemInfo.non_model_data_list, Reconciled)
            /\ Last(MemInfo'.non_model_data_list) >= Last(MemInfo.non_model_data_list)
            /\ MemInfo'.temp_grad_volume = 0
            /\ MemInfo'.model_data_list = MemInfo.model_data_list]_vars

\* a backward pre_op has replaced the last sample by a value that no append
\* produces, and its own model-data sample has found pending volume again
C13_Witness ==
    /\ ret.op = "pre_op"
    /\ ret.err = "none"
    /\ drv.pc = "bwd"
    /\ Len(MemInfo.model_data_list) >= 2
    /\ Len(MemInfo.non_model_data_list) = Len(MemInfo.model_data_list) - 1
    /\ Last(MemInfo.non_model_data_list) >
           drv.cuda_volume - MemInfo.model_data_list[Len(MemInfo.model_data_list) - 1]
    /\ MemInfo.temp_grad_volume > 0

\* C14: post_op appends exactly one non-model sample, window peak less last
\* model-data sample, when the phase is BACKWARD and pending volume is above 0,
\* and otherwise leaves the ledger alone; it never changes model_data_list,
\* the gradient flags, pending or the running estimate; and the sample it
\* appended is overwritten, not kept as an extra one, by whatever hook call
\* comes next (a pre_op or _post_backward).
C14_PostOpSample ==
    [][/\ (ret'.op = "post_op" /\ ret'.err = "none") =>
            /\ MemInfo'.non_model_data_list =
                   IF hook._training_phase = "BACKWARD" /\ MemInfo.temp_grad_volume > 0
                   THEN Append(MemInfo.non_model_data_list,
                               drv'.cuda_volume - Last(MemInfo.model_data_list))
                   ELSE MemInfo.non_model_data_list
            /\ MemInfo'.model_data_list = MemInfo.model_data_list
            /\ MemInfo'.unreleased_grad_flag = MemInfo.unreleased_grad_flag
            /\ MemInfo'.temp_grad_volume = MemInfo.temp_grad_volume
            /\ hook'.model_data_mem = hook.model_data_mem
            /\ hook'._training_phase = hook._training_phase
       /\ (ret.op = "post_op" /\ ret.err = "none" /\ hook._training_phase = "BACKWARD"
              /\ MemInfo.temp_grad_volume > 0 /\ ret'.err = "none") =>
            /\ ret'.op \in {"pre_op", "backward"}
            /\ Len(MemInfo'.non_model_data_list) = Len(MemInfo.non_model_data_list)
            /\ Last(MemInfo'.non_model_data_list) >= Last(MemInfo.non_model_data_list)]_vars

\* a backward post_op has appended its sample, leaving one non-model sample
\* per model-data sample while volume is still pending
C14_Witness ==
    /\ ret.op = "post_op"
    /\ ret.err = "none"
    /\ hook._training_phase = "BACKWARD"
    /\ MemInfo.temp_grad_volume > 0
    /\ Len(MemInfo.non_model_data_list) = Len(MemInfo.model_data_list)
    /\ Last(MemInfo.non_model_data_list) = drv.cuda_volume - Last(MemInfo.model_data_list)
    /\ drv.n = MaxPairs

\* the node the backward loop is about to visit, and its names for the
\* boundary test
Visited == frame.nodes[frame.i]
BackwardPass == frame.pc = "backward" /\ frame.i >= 1 /\ frame'.pc = "backward"
NameList == ModuleNameList(static.module_info_list)

RunOnce == init_mem_stats(MemStatsCollector__init__, MemStatsCollectorStatic__init__,
                          frame.graph)
\* init_mem_stats has returned for the n-th time
Returned_n(n) ==
    /\ ret.op = "init_mem_stats"
    /\ ret.err = "none"
    /\ frame.pc = "idle"
    /\ Len(static.module_info_list) = n * Len(Registry)

\* C16: init_mem_stats is idempotent: after the second run on the same
\* collector, module and inputs the sample sequence, the total and the
\* registry are what one run leaves.
C16_Idempotent ==
    Returned_n(2) =>
        /\ msc._non_model_data_cuda_list = RunOnce.self._non_model_data_cuda_list
        /\ msc._step_total = RunOnce.self._step_total
        /\ static = RunOnce.stat

\* the marker calls of registered modules in a graph, and the registry entries
\* that have one
MarkerCalls(graph) ==
    {i \in 1..Len(graph) : IsBoundary(graph[i], ModuleNameList(Registry))}
EntriesCalled(graph) ==
    {k \in 1..Len(Registry) :
        \E i \in 1..Len(graph) :
            /\ graph[i].op = "call_module"
            /\ StrReplace(graph[i].target, ".", "_") =
                  Registry[k].module_full_name \o <<"_", "0">>}

Skipped(node) ==
    \/ StrContains(node.name, <<"w", "h", "e", "r", "e">>)
    \/ StrContains(node.name, <<"t", "r", "u", "e", "d", "i", "v">>)
Producers(node) == {node.args[k] : k \in 1..Len(node.args)}
\* the producers of the visited node that a consumer visited earlier in the
\* reversed loop, and not skipped, has referenced
ReferencedBefore ==
    {p \in Producers(Visited) :
        \E j \in (frame.i + 1)..Len(frame.nodes) :
            ~Skipped(frame.nodes[j]) /\ p \in Producers(frame.nodes[j])}
\* the producers whose forward output the visited node releases
ReleasedNow ==
    {p \in Producers(Visited) :
        frame.nodes[p].fwd_out > 0 /\ frame.fwd_out_released[p] = "False"}
RECURSIVE SumFwdOutOf(_)
SumFwdOutOf(ps) ==
    IF ps = {} THEN 0
    ELSE LET p == CHOOSE q \in ps : TRUE IN
         frame.nodes[p].fwd_out + SumFwdOutOf(ps \ {p})

\* C18: second-reference collapse: a node visited in Phase B, not skipped,
\* that references a producer already referenced by a consumer visited before
\* it, subtracts that producer's forward-output bytes from total once more, on
\* top of the single release of the producer's forward output.
C18_SecondReferenceCollapse ==
    [][(BackwardPass /\ ~Skipped(Visited) /\ ReferencedBefore # {}
          /\ Visited.name # <<"o", "u", "t", "p", "u", "t">>) =>
          frame'.total_mem =
              frame.total_mem + Visited.bwd_mem_out - Visited.fwd_tmp
                - SumSeq(Visited.fwd_out_tensors)
                - SumFwdOutOf(ReleasedNow)
                - SumFwdOutOf(ReferencedBefore)
                + (IF IsBoundary(Visited, NameList)
                   THEN SumSeq(Visited.fwd_out_tensors) ELSE 0)]_vars

\* the pass over the node named "output"
OutputPass == BackwardPass /\ Visited.name = <<"o", "u", "t", "p", "u", "t">>
\* the forward-output bytes of its inputs, one term for each entry of its args
InputsOfOutput == SumFwdOut(frame.nodes, Visited.args, 1)

\* C19 as stated: the inputs of the output node are re-added to total before
\* the node is processed, so the peak evaluated for it counts them on top of
\* total and the node's backward footprint.
C19_ReaddedBeforePeak ==
    [][OutputPass =>
          frame'.peak_mem =
              Max2(frame.peak_mem,
                   frame.total_mem + InputsOfOutput
                     + Visited.bwd_mem_tmp + Visited.bwd_mem_out)]_vars

\* C19: the inputs of the output node are re-added to total after the node has
\* been processed: the peak evaluated for it is the larger of the old peak and
\* total plus the node's backward footprint, without the re-added bytes, and
\* the re-addition, one for each entry of its args, comes after the release
\* of its inputs, so that total still counts them when the pass ends.
C19_ReaddedAfterRelease ==
    [][OutputPass =>
          /\ frame'.peak_mem =
                 Max2(frame.peak_mem,
                      frame.total_mem + Visited.bwd_mem_tmp + Visited.bwd_mem_out)
          /\ frame'.total_mem =
                 frame.total_mem + Visited.bwd_mem_out - Visited.fwd_tmp
                   - SumSeq(Visited.fwd_out_tensors)
                   - SumFwdOutOf(ReleasedNow)
                   + InputsOfOutput
          /\ \A p \in Producers(Visited) :
                 frame.nodes[p].fwd_out > 0 => frame'.fwd_out_released[p] = "True"]_vars

\* the reversed loop has passed the output node, whose input is released and
\* still counted: total is what the forward loop left
C19_Witness ==
    /\ frame.pc = "backward"
    /\ frame.i = Len(frame.nodes) - 1
    /\ frame.nodes[Len(frame.nodes)].name = <<"o", "u", "t", "p", "u", "t">>
    /\ \E p \in Producers(frame.nodes[Len(frame.nodes)]) :
           frame.nodes[p].fwd_out > 0 /\ frame.fwd_out_released[p] = "True"
    /\ frame.total_mem = frame.peak_mem
    /\ frame.total_mem > 0

\* C20: in Phase B the pass over a node whose name contains "where" or
\* "truediv" changes nothing: total, peak, the released flags of all
\* producers, the nodes and the recorded samples stay as they are, and its
\* inputs are not released on its behalf.
C20_SkippedNode ==
    [][(BackwardPass /\ Skipped(Visited)) =>
          /\ frame'.total_mem = frame.total_mem
          /\ frame'.peak_mem = frame.peak_mem
          /\ frame'.fwd_out_released = frame.fwd_out_released
          /\ frame'.grad_in_computed = frame.grad_in_computed
          /\ frame'.nodes = frame.nodes
          /\ msc' = msc]_vars

\* the reversed loop has passed a truediv node with a backward footprint
\* whose input has forward output and is still unreleased
C20_Witness ==
    /\ frame.pc = "backward"
    /\ frame.i >= 1
    /\ frame.i < Len(frame.nodes)
    /\ LET node == frame.nodes[frame.i + 1] IN
       /\ StrContains(node.name, <<"t", "r", "u", "e", "d", "i", "v">>)
       /\ node.bwd_mem_tmp + node.bwd_mem_out > 0
       /\ \E p \in Producers(node) :
              frame.nodes[p].fwd_out > 0 /\ frame.fwd_out_released[p] = "False"

\* a pass of the forward loop
ForwardPass == frame.pc = "forward" /\ frame.i <= Len(frame.nodes) /\ frame'.pc = "forward"
\* a call_module node whose target, dots replaced, lacks the "_0" suffix or
\* names no registered module in front of it
Unresolved(node) ==
    /\ node.op = "call_module"
    /\ LET module_name == StrReplace(node.target, ".", "_") IN
       \/ ~EndsWith(module_name, <<"_", "0">>)
       \/ \A k \in 1..Len(static.module_info_list) :
             static.module_info_list[k].module_full_name # DropLastTwo(module_name)

\* C21: a call_module node whose target does not resolve to a registry entry
\* is an ordinary node: its pass records no sample in either loop, leaves the
\* backward footprint of every node as it is, and in Phase B evaluates peak
\* as max(peak, total + footprint) without resetting it.
C21_UnresolvedIsOrdinary ==
    [][/\ (ForwardPass /\ Unresolved(Visited)) =>
            /\ msc' = msc
            /\ frame'.nodes = frame.nodes
            /\ frame'.total_mem = frame.total_mem + Visited.fwd_tmp + Visited.fwd_out
       /\ (BackwardPass /\ Unresolved(Visited) /\ ~Skipped(Visited)) =>
            /\ msc' = msc
            /\ frame'.nodes = frame.nodes
            /\ frame'.peak_mem =
                   Max2(frame.peak_mem,
                        frame.total_mem + Visited.bwd_mem_tmp + Visited.bwd_mem_out)
            /\ frame'.total_mem =
                   frame.total_mem + Visited.bwd_mem_out - Visited.fwd_tmp
                     - SumSeq(Visited.fwd_out_tensors) - SumFwdOutOf(ReleasedNow)]_vars

\* the reversed loop has passed a call_module node with the "_0" suffix that
\* names no registered module; its backward footprint is still there
C21_Witness ==
    /\ frame.pc = "backward"
    /\ frame.i >= 1
    /\ frame.i < Len(frame.nodes)
    /\ LET node == frame.nodes[frame.i + 1] IN
       /\ Unresolved(node)
       /\ EndsWith(StrReplace(node.target, ".", "_"), <<"_", "0">>)
       /\ node.bwd_mem_tmp > 0
       /\ node.bwd_mem_out > 0

\* the bytes a node adds in the forward loop, and its backward footprint
ForwardBytes(node) == node.fwd_tmp + node.fwd_out
BackwardBytes(node) == node.bwd_mem_tmp + node.bwd_mem_out
\* the sample the reversed loop records at the boundary of the second layer,
\* and the one it records at the boundary of the first layer
SampleOfLayer2 == msc._non_model_data_cuda_list[Len(msc._non_model_data_cuda_list) - 1]
SampleOfLayer1 == msc._non_model_data_cuda_list[Len(msc._non_model_data_cuda_list)]
ChainRunReturned ==
    /\ ret.op = "init_mem_stats"
    /\ ret.err = "none"
    /\ frame.pc = "idle"
    /\ frame.graph \in TwoLayerGraphs

C23_ReleasedOnce ==
    [][BackwardPass =>
          /\ \A p \in 1..Len(frame.nodes) :
                /\ frame.fwd_out_released[p] = "True" => frame'.fwd_out_released[p] = "True"
                /\ frame.nodes[p].fwd_out = 0 => frame'.fwd_out_released[p] = "absent"
                /\ frame'.fwd_out_released[p] # frame.fwd_out_released[p] =>
                      /\ p \in ReleasedNow
                      /\ ~Skipped(Visited)
          /\ ~Skipped(Visited) =>
                frame'.total_mem =
                    frame.total_mem + Visited.bwd_mem_out - Visited.fwd_tmp
                      - SumSeq(Visited.fwd_out_tensors)
                      - SumFwdOutOf(ReleasedNow)
                      + (IF Visited.name = <<"o", "u", "t", "p", "u", "t">>
                         THEN InputsOfOutput ELSE 0)
                      + (IF IsBoundary(Visited, NameList)
                         THEN SumSeq(Visited.fwd_out_tensors) ELSE 0)]_vars

\* the reversed loop has passed a node that names one producer twice, after
\* another consumer of that producer had released it
C23_Witness ==
    /\ frame.pc = "backward"
    /\ frame.i >= 1
    /\ frame.i < Len(frame.nodes) - 1
    /\ LET node == frame.nodes[frame.i + 1] IN
       \E k1, k2 \in 1..Len(node.args) :
          /\ k1 < k2
          /\ node.args[k1] = node.args[k2]
          /\ frame.nodes[node.args[k1]].fwd_out > 0
          /\ frame.fwd_out_released[node.args[k1]] = "True"
          /\ \E j \in (frame.i + 2)..Len(frame.nodes) :
                node.args[k1] \in Producers(frame.nodes[j])

\* the forward loop and lines 211-212 of the first run are done
PhaseADone ==
    /\ frame.pc = "backward"
    /\ frame.i = Len(frame.nodes)
    /\ Len(static.module_info_list) = Len(Registry)
\* the forward temp + forward out bytes of the nodes up to and including n
RunningTotal(graph, n) == SumSeq([m \in 1..n |-> ForwardBytes(graph[m])])
\* the position of the i-th boundary node
NthBoundary(graph, i) ==
    CHOOSE n \in MarkerCalls(graph) :
        Cardinality({m \in MarkerCalls(graph) : m <= n}) = i

\* C24: Phase A, run on an empty sample list over a graph with B >= 1
\* boundary nodes, leaves B samples: the i-th, i < B, is the running total at
\* the (i+1)-th boundary node, the last is the total over all nodes, the
\* total at the first boundary is dropped, the samples do not decrease; the
\* backward footprint of every boundary node is 0 and no other node changed.
C24_PhaseASamples ==
    (PhaseADone /\ MarkerCalls(frame.graph) # {}) =>
        LET g == frame.graph
            B == Cardinality(MarkerCalls(g))
            samples == msc._non_model_data_cuda_list
        IN  /\ Len(samples) = B
            /\ \A i \in 1..(B - 1) : samples[i] = RunningTotal(g, NthBoundary(g, i + 1))
            /\ samples[B] = RunningTotal(g, Len(g))
            /\ \A i \in 1..(B - 1) : samples[i] <= samples[i + 1]
            /\ frame.total_mem = RunningTotal(g, Len(g))
            /\ \A n \in 1..Len(g) :
                  frame.nodes[n] =
                      IF n \in MarkerCalls(g)
                      THEN [g[n] EXCEPT !.bwd_mem_tmp = 0, !.bwd_mem_out = 0]
                      ELSE g[n]

\* Phase A is done for a graph with two boundaries, the second of them a
\* marker with forward output, whose backward footprint was zeroed
C24_Witness ==
    /\ PhaseADone
    /\ Cardinality(MarkerCalls(frame.graph)) = 2
    /\ LET n == NthBoundary(frame.graph, 2) IN
       /\ frame.graph[n].fwd_out > 0
       /\ frame.graph[n].bwd_mem_out > 0
       /\ frame.nodes[n].bwd_mem_out = 0
       /\ msc._non_model_data_cuda_list[1] = RunningTotal(frame.graph, n)
    /\ msc._non_model_data_cuda_list[1] < msc._non_model_data_cuda_list[2]

\* C25: init_mem_stats restores the module tree on every exit: once it has
\* returned or failed, every parent's attribute refers to the original
\* submodule again and no identity-marker wrapper is left in the tree.
C25_TreeRestored ==
    (ret.op = "init_mem_stats" /\ frame.pc = "idle") => static.attr = TreeAttrs__init__

\* the trainable parameters of a list whose gradient is not counted yet
FirstVisits(params) ==
    {p \in {params[k] : k \in 1..Len(params)} :
        RequiresGrad(p) /\ ~MemInfo.unreleased_grad_flag[p]}
RECURSIVE SumParamBytes(_)
SumParamBytes(ps) ==
    IF ps = {} THEN 0
    ELSE LET p == CHOOSE q \in ps : TRUE IN ParamBytes(p) + SumParamBytes(ps \ {p})

\* C26: a trainable parameter's gradient bytes are added to model_data_mem at
\* most once per iteration, its flag turning true then and staying true until
\* the next _pre_forward, later backward visits adding to the pending volume;
\* and every iteration starts with all flags false, pending 0 and
\* model_data_mem equal to the base volume given at construction, so every
\* forward-phase model-data sample is that base volume.
C26_GradientCountedOnce ==
    [][/\ (ret'.op = "pre_op" /\ ret'.err = "none" /\ hook._training_phase = "BACKWARD") =>
            /\ hook'.model_data_mem =
                   hook.model_data_mem + SumParamBytes(FirstVisits(drv'.params))
            /\ \A p \in FirstVisits(drv'.params) : MemInfo'.unreleased_grad_flag[p]
       /\ (ret'.op # "forward") =>
            \A p \in DOMAIN MemInfo.unreleased_grad_flag :
                MemInfo.unreleased_grad_flag[p] => MemInfo'.unreleased_grad_flag[p]
       /\ (ret'.op = "forward" /\ ret'.err = "none") =>
            /\ \A p \in DOMAIN MemInfo'.unreleased_grad_flag :
                   ~MemInfo'.unreleased_grad_flag[p]
            /\ MemInfo'.temp_grad_volume = 0
            /\ hook'.model_data_mem = ModelMem
       /\ (ret'.op = "pre_op" /\ ret'.err = "none" /\ hook._training_phase = "FORWARD") =>
            Last(MemInfo'.model_data_list) = ModelMem]_vars

\* C27: switch_training_phase restores the previous training phase when its
\* context exits, normally or through an exception, also when contexts are
\* nested; so every hook inside backward() runs with phase BACKWARD, and the
\* phase is FORWARD again when _post_backward has run, with no context open,
\* and while the next iteration's forward hooks run.
C27_PhaseRestored ==
    [][/\ (ret'.op = "switch_training_phase_exit") =>
            hook'._training_phase = drv.ctx[Len(drv.ctx)]
       /\ (drv'.pc = "bwd") => hook'._training_phase = "BACKWARD"
       /\ (drv'.pc = "fwd") => hook'._training_phase = "FORWARD"
       /\ (ret'.op = "backward") => hook'._training_phase = "FORWARD"
       /\ (drv'.pc = "idle" /\ drv'.ctx = << >>) => hook'._training_phase = "FORWARD"]_vars
\* an inner context that ran with FORWARD is left through an exception and the
\* phase is BACKWARD again, that of the context still open around it
C27_Witness ==
    /\ ret.op = "switch_training_phase_exit"
    /\ ret.err = "Exception"
    /\ ret.arg = "FORWARD"
    /\ Len(drv.ctx) = 1
    /\ hook._training_phase = "BACKWARD"

\* C28: ParamWrapper's iteration is a round trip on parameter data: when
\* backward() ends after forward(), every parameter's data equals the value
\* _pre_forward saved, whatever the hooks did to it, the saved-copy dictionary
\* is empty again, and the ledger holds one more non-model sample, the final
\* window peak minus the last model-data sample.
C28_RoundTrip ==
    [][(ret'.op = "backward") =>
          /\ \A p \in PwParams : pw'.data[p].val = pw.cpu_param_data_dict[p]
          /\ \A p \in PwParams : pw'.cpu_param_data_dict[p] = NoCopy
          /\ pw'.non_model_data_list =
                Append(pw.non_model_data_list,
                       pw'.cuda_volume - Last(pw.model_data_list))]_vars
\* the same for an iteration in which the hooks recorded a model-data sample
C28_RoundTripWhenSampled ==
    [][(ret'.op = "backward" /\ pw.model_data_list # << >>) =>
          /\ ret'.err = "none"
          /\ \A p \in PwParams : pw'.data[p].val = pw.cpu_param_data_dict[p]
          /\ \A p \in PwParams : pw'.cpu_param_data_dict[p] = NoCopy
          /\ pw'.non_model_data_list =
                Append(pw.non_model_data_list,
                       pw'.cuda_volume - Last(pw.model_data_list))]_vars

====
